---- MODULE Spec2Model ----
(***************************************************************************)
(* The cmockery test harness of random_notes: the queues of programmed     *)
(* return values (will_return / mock), the queues of parameter             *)
(* expectations (expect_value / check_expected), the tracked heap          *)
(* (test_malloc / test_free) and _run_test, which runs the items of a      *)
(* suite one after the other and turns a failure raised inside an item     *)
(* (exit_test -> longjmp) into that item's verdict.                        *)
(***************************************************************************)
EXTENDS Integers, Sequences, FiniteSets, TLC

\* ------------------------------------------------------------------ bounds
NumItems == 2          \* items of the suite handed to run_tests
MaxSteps == 3          \* statements the callbacks of one run execute in total
TripleItems == 3       \* items of a suite declared with unit_test_setup_teardown
WidthBits == 4         \* bits of LargestIntegralType, scaled down from 64
MaxSection == 2        \* bytes of section[], scaled down from MAX_SECTION
MaxName == 2           \* bytes of prev_name[], scaled down from MAX_NAME
MaxString == 3         \* bytes of the string given to ini_parse_string_length
MaxBuffer == 3         \* bytes of the line buffer ini_parse_stream reads into
AbyssSize == 2         \* bytes of abyss[], scaled down from 16
MaxValues == 3         \* calls of INIReader::ValueHandler while the file is parsed
MaxLines == 3          \* lines the reader delivers to ini_parse_stream
MainTests == 6         \* test_count of the tests[] that main of test_function_type.cpp runs

\* ------------------------------------------------------- program constants
INFINITE == -1         \* count = -1: the entry is never used up
NULL == 0              \* the null pointer
EXIT_FAILURE == 1      \* <stdlib.h>, status of custom_assert_failed's exit
INI_STOP_ON_FIRST_ERROR == 0   \* ini.h: the parser goes on after an error

\* ------------------------------------------------------------ input domains
Functions == {"F", "G"}             \* mocked functions (#function / __func__)
Parameters == {"x"}                 \* checked parameters (#parameter)
Values == {5, 6}                    \* payloads and actual arguments
Counts == {1, 2, INFINITE}          \* the count argument of the *_count macros
Addrs == {1, 2}                     \* addresses the allocator can hand out
UnitTestFunctionType == {"TEST", "SETUP", "TEARDOWN"}
Keys == Functions \X Parameters

VARIABLES
    hstate,                 \* "IDLE", "RUNNING" (inside Function), "SUITE_DONE", "EXITED"
    current,                \* index of the item _run_tests started last (0: none yet)
    function_type,          \* function_type of the current item
    global_running_test,    \* 1 while _run_test is inside its setjmp region
    verdict,                \* per item: "NONE", "PASSED", "FAILED"
    invoked,                \* per item: how often its callback was entered
    notice,                 \* per item: the messages _run_test printed once it was over
    function_result_map,    \* ValueQueue: function -> <<[value, count]>>
    function_parameter_map, \* ExpectationRegistry: <<function, parameter>> -> <<[value, count]>>
    allocated_blocks,       \* AllocationTracker: the addresses of the live blocks
    check_point,            \* the checkpoint _run_test took for the current item
    exit_status,            \* the status the process exited with (when hstate = "EXITED")
    steps,                  \* statements the callbacks have executed so far
    checks,                 \* which post-return checks _run_test ran for the current item
    last,                   \* the statement executed last and what it did
    own,                    \* what the current item registered, consumed and allocated itself
    number_of_tests,        \* _run_tests' number_of_tests: the items of the suite
    rc,                     \* _run_test's return value for the current item
    total_failed,           \* _run_tests' count of the items that failed
    current_state,          \* *state: the slot _run_tests hands to the callbacks
    triple,                 \* how far a setup/test/teardown triple has come
    main_run,               \* the run of test_function_type.cpp's own main
    second,                 \* the state of a second execution of the same suite
    scalar,                 \* the scalar check made last: its arguments and its result
    expect_assert,          \* global_expecting_assert and where expect_assert_failure is
    ini,                    \* the locals of ini_parse_stream and what its handler saw
    ctx,                    \* ini_parse_string_ctx and where ini_parse_string_length is
    reader                  \* the INIReader: _values, and what was delivered and asked

vars == <<hstate, current, function_type, global_running_test, verdict, invoked, notice,
          function_result_map, function_parameter_map, allocated_blocks,
          check_point, exit_status, steps, checks, last, own,
          number_of_tests, rc, total_failed, current_state, triple, main_run,
          second, scalar, expect_assert, ini, ctx, reader>>

\* The program state as one value, so that the functions of the source can be
\* written as functions from state to state.
St ==
    [hstate |-> hstate, current |-> current, function_type |-> function_type,
     global_running_test |-> global_running_test, verdict |-> verdict,
     invoked |-> invoked, notice |-> notice, function_result_map |-> function_result_map,
     function_parameter_map |-> function_parameter_map,
     allocated_blocks |-> allocated_blocks, check_point |-> check_point,
     exit_status |-> exit_status, steps |-> steps, checks |-> checks,
     last |-> last, own |-> own, number_of_tests |-> number_of_tests,
     rc |-> rc, total_failed |-> total_failed, current_state |-> current_state,
     triple |-> triple]

CommitState(s) ==
    /\ hstate' = s.hstate
    /\ current' = s.current
    /\ function_type' = s.function_type
    /\ global_running_test' = s.global_running_test
    /\ verdict' = s.verdict
    /\ invoked' = s.invoked
    /\ notice' = s.notice
    /\ function_result_map' = s.function_result_map
    /\ function_parameter_map' = s.function_parameter_map
    /\ allocated_blocks' = s.allocated_blocks
    /\ check_point' = s.check_point
    /\ exit_status' = s.exit_status
    /\ steps' = s.steps
    /\ checks' = s.checks
    /\ last' = s.last
    /\ own' = s.own
    /\ number_of_tests' = s.number_of_tests
    /\ rc' = s.rc
    /\ total_failed' = s.total_failed
    /\ current_state' = s.current_state
    /\ triple' = s.triple

Commit(s) == CommitState(s) /\ UNCHANGED <<main_run, second, scalar, expect_assert, ini, ctx, reader>>

NoOp == [op |-> "none", fn |-> "-", par |-> "-", val |-> 0, cnt |-> 0,
         res |-> "-", ret |-> 0, leaks |-> {}]

Op(o, f, p, v, c) == [op |-> o, fn |-> f, par |-> p, val |-> v, cnt |-> c,
                      res |-> "ok", ret |-> 0, leaks |-> {}]

\* Nothing registered, consumed or allocated yet.  ret and exp count the uses
\* registered minus the uses consumed, reg the uses registered; unlimited notes
\* an INFINITE registration.
NoneOwn == [ret |-> [f \in Functions |-> 0], exp |-> [k \in Keys |-> 0],
            reg |-> [f \in Functions |-> 0], expreg |-> [k \in Keys |-> 0],
            blocks |-> {}, unlimited |-> FALSE]

OwnAfter(w, o) ==
    IF o.op = "will_return"
    THEN IF o.cnt = INFINITE THEN [w EXCEPT !.unlimited = TRUE]
         ELSE [w EXCEPT !.ret[o.fn] = @ + o.cnt, !.reg[o.fn] = @ + o.cnt]
    ELSE IF o.op = "mock" THEN [w EXCEPT !.ret[o.fn] = @ - 1]
    ELSE IF o.op = "expect_value"
    THEN IF o.cnt = INFINITE THEN [w EXCEPT !.unlimited = TRUE]
         ELSE [w EXCEPT !.exp[<<o.fn, o.par>>] = @ + o.cnt,
                   !.expreg[<<o.fn, o.par>>] = @ + o.cnt]
    ELSE IF o.op = "check_expected" THEN [w EXCEPT !.exp[<<o.fn, o.par>>] = @ - 1]
    ELSE IF o.op = "test_malloc" /\ o.val # NULL THEN [w EXCEPT !.blocks = @ \cup {o.val}]
    ELSE IF o.op = "test_free" THEN [w EXCEPT !.blocks = @ \ {o.val}]
    ELSE w

\* ini_parse_stream at its first call of reader: section = "", prev_name = "",
\* lineno = 0, error = 0.  pc: "loop", "at_eof" (the stream has ended, reader
\* returns NULL next), "done" (returned ret).  What follows ret is kept for the
\* properties: calls (handler invocations), zero_at (the first line whose
\* handler call returned 0), first_bad (the first line with an error), last
\* (the line handled last), hdr (the name, cut to the size of section[], of the
\* last closed section header that was not a continuation; hdr_cut: it was
\* longer), pair_name and
\* pair_section (the name and section the handler got for the last name=value
\* line, emptied by a closed section header).  A line of NoLine is kept with
\* kind: "blank", "continuation" (indented text while pair_name is not
\* empty), "header", "open_header", "pair" or "other".
NoLine == [invoked |-> FALSE, section |-> <<>>, name |-> <<>>, result |-> 1,
           bad |-> FALSE, wellformed |-> FALSE, wf_name |-> <<>>, kind |-> "blank"]

NoIni == [section |-> <<>>, prev_name |-> <<>>, lineno |-> 0, error |-> 0,
          pc |-> "loop", ret |-> 0,
          calls |-> 0, zero_at |-> 0, first_bad |-> 0, last |-> NoLine,
          hdr |-> <<>>, hdr_cut |-> FALSE, pair_name |-> <<>>, pair_section |-> <<>>]

\* ini_parse_string_length has not been called.  pc: "idle", "line" (at the
\* reader call of the while loop), "abyss" (at the reader call that discards the
\* rest of a line), "done".  ptr counts the bytes ctx.ptr has moved past.  Kept
\* line is what the line buffer holds while the abyss loop runs, more whether
\* that loop got anything.  Kept for the properties: out (the chunks returned
\* so far, joined), chunk, null and num (the last call's result and its num),
\* calls, start (the bytes moved past before the line in the buffer was read).
NoCtx == [pc |-> "idle", string |-> <<>>, length |-> 0, max_line |-> 0,
          ptr |-> 0, num_left |-> 0, line |-> <<>>, more |-> FALSE,
          out |-> <<>>, chunk |-> <<>>, null |-> FALSE, num |-> 0, calls |-> 0,
          start |-> 0]

\* An INIReader whose constructor has just called ini_parse: _values is empty.
\* pc: "parsing" (inside the constructor), "parsed".  Kept for the properties:
\* delivered (the handler's calls with a name, in order), calls, got (the last
\* call of Get: its arguments and what it returned).
NoReader == [pc |-> "parsing", _values |-> <<>>, delivered |-> <<>>, calls |-> 0,
             got |-> [asked |-> FALSE, section |-> <<>>, name |-> <<>>,
                      default_value |-> <<>>, ret |-> <<>>]]

\* No expect_assert_failure has been entered.  pc: "out" (outside the macro),
\* "call" (inside function_call), "after" (the macro was left normally);
\* expression: what setjmp(global_expect_assert_env) returned last.
NoExpectAssert == [global_expecting_assert |-> 0, pc |-> "out", expression |-> 0]

\* No scalar check has been made.
NoScalar == [op |-> "none", passed |-> FALSE]

\* The main of test_function_type.cpp has not been entered.
\* tests: the declared array; pass: the loop main is in (1 setups, 2 tests,
\* 3 teardowns, 4 returned); i: its index; calls: the callbacks called so far,
\* each with what it found in *state and what it left there.
NoMain == [tests |-> <<>>, pass |-> 0, i |-> 0, calls |-> <<>>]

\* No SETUP has stored a block in *state yet.  phase: "none", then "setup",
\* "test", "teardown" as the items of a triple do their part and nothing else
\* ("broken" otherwise); first: the SETUP item; base: the blocks live before it.
NoTriple == [phase |-> "none", first |-> 0, base |-> {}]

\* The process before _run_tests(tests, n) is entered.
InitRun(n) ==
    /\ hstate = "IDLE"
    /\ current = 0
    /\ function_type = "TEST"
    /\ global_running_test = 0
    /\ verdict = [i \in 1..n |-> "NONE"]
    /\ invoked = [i \in 1..n |-> 0]
    /\ notice = [i \in 1..n |-> <<>>]
    /\ number_of_tests = n
    /\ rc = 0
    /\ total_failed = 0
    /\ current_state = NULL
    /\ triple = NoTriple
    /\ function_result_map = [f \in Functions |-> <<>>]
    /\ function_parameter_map = [k \in Keys |-> <<>>]
    /\ allocated_blocks = {}
    /\ check_point = {}
    /\ exit_status = 0
    /\ steps = 0
    /\ checks = {}
    /\ last = NoOp
    /\ own = NoneOwn
    /\ second = St
    /\ scalar = NoScalar
    /\ expect_assert = NoExpectAssert
    /\ ini = NoIni
    /\ ctx = NoCtx
    /\ reader = NoReader

Init == InitRun(NumItems) /\ main_run = NoMain

\* ---------------------------------------------------------------- harness

\* exit(status): the process ends; nothing of the harness runs afterwards.
exit(s, status) == [s EXCEPT !.hstate = "EXITED", !.exit_status = status]

\* print_message in _run_test: one more line printed for the current item.
print_message(s, text) == [s EXCEPT !.notice[s.current] = Append(@, text)]

\* The else branch, were it to empty the queues as well.
RunTestFailed_Reset(s) ==
    [s EXCEPT !.global_running_test = 0,
              !.notice[s.current] = Append(@, "Test failed."),
              !.verdict[s.current] = "FAILED",
              !.hstate = "IDLE",
              !.function_result_map = [f \in Functions |-> <<>>],
              !.function_parameter_map = [k \in Keys |-> <<>>]]

\* The else branch of _run_test's setjmp: where longjmp(global_run_test_env, 1) lands.
RunTestFailed(s) ==
    print_message([s EXCEPT !.global_running_test = 0,
                            !.verdict[s.current] = "FAILED",
                            !.hstate = "IDLE"],
                  "Test failed.")

\* exit_test without the test of global_running_test.
exit_test_Quit(s, quit_application) ==
    IF quit_application # 0 THEN exit(s, -1) ELSE s

\* exit_test that jumps whether or not a test is running.
exit_test_Jumps(s, quit_application) == RunTestFailed(s)

exit_test(s, quit_application) ==
    IF s.global_running_test = 1 THEN RunTestFailed(s)
    ELSE IF quit_application # 0 THEN exit(s, -1)
    ELSE s

\* _fail without the call of exit_test: it prints and returns.
_fail_Returns(s) == s

\* _fail that ends the process instead of calling exit_test.
_fail_Exits(s) == exit(s, -1)

_fail(s) == exit_test(s, 1)

\* ------------------------------------------------------------- ValueQueue

\* One use of the head entry, were an INFINITE entry removed by its first use.
ConsumeHead_RemovesUnlimited(q) ==
    IF Head(q).count = INFINITE \/ Head(q).count - 1 = 0 THEN Tail(q)
    ELSE <<[Head(q) EXCEPT !.count = @ - 1]>> \o Tail(q)

\* One use of the head entry of a queue: remaining is decremented and the entry
\* removed at 0; an INFINITE entry stays in place.
ConsumeHead(q) ==
    IF Head(q).count = INFINITE THEN q
    ELSE IF Head(q).count - 1 = 0 THEN Tail(q)
    ELSE <<[Head(q) EXCEPT !.count = @ - 1]>> \o Tail(q)

_will_return(s, function_name, value, count) ==
    [s EXCEPT !.function_result_map[function_name] =
                  Append(@, [value |-> value, count |-> count])]

\* will_return with a count of 2.
will_return_Twice(s, function, value) == _will_return(s, function, value, 2)

will_return(s, function, value) == _will_return(s, function, value, 1)

\* will_return_count that drops its count.
will_return_count_Once(s, function, value, count) ==
    _will_return(s, function, value, 1)

will_return_count(s, function, value, count) ==
    _will_return(s, function, value, count)

\* A mock read on an empty queue ends the process (FatalMisuse), whether or not
\* a test is running.
_mock(s, function) ==
    LET q == s.function_result_map[function] IN
    IF q = <<>>
    THEN exit([s EXCEPT !.last.res = "fatal_misuse"], -1)
    ELSE [s EXCEPT !.function_result_map[function] = ConsumeHead(q),
                   !.last.ret = Head(q).value]

mock(s, function) == _mock(s, function)

\* ---------------------------------------------------- ExpectationRegistry

_expect_value(s, function, parameter, value, count) ==
    [s EXCEPT !.function_parameter_map[<<function, parameter>>] =
                  Append(@, [value |-> value, count |-> count])]

\* expect_value_count that drops its count.
expect_value_count_Once(s, function, parameter, value, count) ==
    _expect_value(s, function, parameter, value, 1)

expect_value_count(s, function, parameter, value, count) ==
    _expect_value(s, function, parameter, value, count)

expect_value(s, function, parameter, value) ==
    expect_value_count(s, function, parameter, value, 1)

\* The predicate of an ExactValue event.
check_value(event, value) == value = event.value

_check_expected(s, function_name, parameter_name, value) ==
    LET q == s.function_parameter_map[<<function_name, parameter_name>>] IN
    IF q = <<>>
    THEN _fail([s EXCEPT !.last.res = "missing"])
    ELSE IF check_value(Head(q), value)
    THEN [s EXCEPT !.function_parameter_map[<<function_name, parameter_name>>] =
                       ConsumeHead(q)]
    ELSE _fail([s EXCEPT !.last.res = "mismatch"])

check_expected(s, function, parameter, value) ==
    _check_expected(s, function, parameter, value)

\* -------------------------------------------------------------- assertions

values_equal_display_error(left, right) == left = right

_assert_int_equal(s, a, b) ==
    IF ~values_equal_display_error(a, b)
    THEN _fail([s EXCEPT !.last.res = "assert"])
    ELSE s

_assert_true(s, result) ==
    IF result = 0 THEN _fail([s EXCEPT !.last.res = "assert"]) ELSE s

fabs(d) == IF d < 0 THEN -d ELSE d

\* assert_floats_equal: assert_true(fabs(expected - actual) < epsilon)
assert_floats_equal(s, expected, actual, epsilon) ==
    _assert_true(s, IF fabs(expected - actual) < epsilon THEN 1 ELSE 0)

\* custom_assert_failed prints and calls exit(EXIT_FAILURE).
custom_assert_failed(s) == exit(s, EXIT_FAILURE)

assert_null(s, pointer) ==
    IF pointer # NULL
    THEN custom_assert_failed([s EXCEPT !.last.res = "assert"])
    ELSE s

assert_non_null(s, pointer) ==
    IF pointer = NULL
    THEN custom_assert_failed([s EXCEPT !.last.res = "assert"])
    ELSE s

\* ------------------------------------------------------- AllocationTracker

\* The allocator hands out address ptr (NULL: exhausted, nothing is recorded).
_test_malloc(s, ptr) ==
    IF ptr = NULL THEN [s EXCEPT !.last.ret = NULL]
    ELSE [s EXCEPT !.allocated_blocks = @ \cup {ptr}, !.last.ret = ptr]

\* _test_free asserts ptr (_assert_true((intptr_t)ptr, "ptr", ...)), then fails
\* for an address without a record and removes the record otherwise.
_test_free(s, ptr) ==
    LET s1 == _assert_true(s, ptr) IN
    IF s1.hstate # "RUNNING" THEN s1
    ELSE IF ptr \notin s1.allocated_blocks
    THEN _fail([s1 EXCEPT !.last.res = "invalid_free"])
    ELSE [s1 EXCEPT !.allocated_blocks = @ \ {ptr}]

\* diff(snapshot): the blocks live now that were not live at the checkpoint.
LeakedBlocks(s) == s.allocated_blocks \ s.check_point

\* --------------------------------------------------------------- _run_test

\* Any entry left in any return-value queue or any expectation queue.
HasLeftoverValues(s) ==
    \/ \E f \in Functions : s.function_result_map[f] # <<>>
    \/ \E k \in Keys : s.function_parameter_map[k] # <<>>

fail_if_leftover_values(s) ==
    LET s1 == [s EXCEPT !.checks = @ \cup {"leftover"}] IN
    IF HasLeftoverValues(s1)
    THEN exit_test([s1 EXCEPT !.last.res = "leftover"], 1)
    ELSE s1

fail_if_blocks_allocated(s) ==
    LET s1 == [s EXCEPT !.checks = @ \cup {"leak"}] IN
    IF LeakedBlocks(s1) # {}
    THEN exit_test([s1 EXCEPT !.last.res = "leak",
                              !.last.leaks = LeakedBlocks(s1)], 1)
    ELSE s1

\* _run_test up to the call of Function, without a checkpoint of its own.
RunTestBegin_KeepCheckPoint(s, type) ==
    [s EXCEPT !.current = @ + 1,
              !.rc = 1,
              !.function_type = type,
              !.global_running_test = 1,
              !.invoked[s.current + 1] = @ + 1,
              !.hstate = "RUNNING",
              !.checks = {},
              !.last = Op("start", "-", "-", 0, 0),
              !.own = NoneOwn]

\* _run_test up to the call of Function: the checkpoint, global_running_test = 1,
\* setjmp(global_run_test_env) == 0.
RunTestBegin(s, type) ==
    [s EXCEPT !.current = @ + 1,
              !.rc = 1,
              !.function_type = type,
              !.check_point = s.allocated_blocks,
              !.global_running_test = 1,
              !.invoked[s.current + 1] = @ + 1,
              !.hstate = "RUNNING",
              !.checks = {},
              !.last = Op("start", "-", "-", 0, 0),
              !.own = NoneOwn]

\* The end of the setjmp == 0 branch without rc = 0.
RunTestPassed_KeepRc(s) ==
    LET s1 == [s EXCEPT !.global_running_test = 0,
                        !.verdict[s.current] = "PASSED",
                        !.hstate = "IDLE"]
    IN IF s.function_type = "TEST"
       THEN print_message(s1, "Test completed successfully.")
       ELSE s1

\* The end of the setjmp == 0 branch without global_running_test = 0.
RunTestPassed_KeepRunning(s) ==
    LET s1 == [s EXCEPT !.verdict[s.current] = "PASSED",
                        !.rc = 0,
                        !.hstate = "IDLE"]
    IN IF s.function_type = "TEST"
       THEN print_message(s1, "Test completed successfully.")
       ELSE s1

\* The end of the setjmp == 0 branch: the item passed.
RunTestPassed(s) ==
    LET s1 == [s EXCEPT !.global_running_test = 0,
                        !.verdict[s.current] = "PASSED",
                        !.rc = 0,
                        !.hstate = "IDLE"]
    IN IF s.function_type = "TEST"
       THEN print_message(s1, "Test completed successfully.")
       ELSE s1

\* _run_test without the call of fail_if_leftover_values.
RunTestReturned_NoLeftover(s) ==
    LET s2 == IF s.function_type # "SETUP"
              THEN fail_if_blocks_allocated(s)
              ELSE s
    IN IF s2.hstate # "RUNNING" THEN s2 ELSE RunTestPassed(s2)

\* _run_test with the leak check made for TEARDOWN items only.
RunTestReturned_LeakOnlyTeardown(s) ==
    LET s1 == fail_if_leftover_values(s) IN
    IF s1.hstate # "RUNNING" THEN s1
    ELSE LET s2 == IF s1.function_type = "TEARDOWN"
                   THEN fail_if_blocks_allocated(s1)
                   ELSE s1
         IN IF s2.hstate # "RUNNING" THEN s2 ELSE RunTestPassed(s2)

\* _run_test with the leak check made for SETUP items too.
RunTestReturned_LeakForSetup(s) ==
    LET s1 == fail_if_leftover_values(s) IN
    IF s1.hstate # "RUNNING" THEN s1
    ELSE LET s2 == fail_if_blocks_allocated(s1)
         IN IF s2.hstate # "RUNNING" THEN s2 ELSE RunTestPassed(s2)

\* _run_test whose leak check is made even after the leftover check failed.
RunTestReturned_LeakAfterLeftover(s) ==
    LET s1 == fail_if_leftover_values(s)
        s2 == IF s.function_type # "SETUP"
              THEN [s1 EXCEPT !.checks = @ \cup {"leak"}]
              ELSE s1
    IN IF s1.hstate # "RUNNING" THEN s2
       ELSE LET s3 == IF s1.function_type # "SETUP"
                      THEN fail_if_blocks_allocated(s1)
                      ELSE s1
            IN IF s3.hstate # "RUNNING" THEN s3 ELSE RunTestPassed(s3)

\* _run_test from the normal return of Function on.  A check that fails leaves
\* through exit_test's longjmp, and what follows it here is not executed.
RunTestReturned(s) ==
    LET s1 == fail_if_leftover_values(s) IN
    IF s1.hstate # "RUNNING" THEN s1
    ELSE LET s2 == IF s1.function_type # "SETUP"
                   THEN fail_if_blocks_allocated(s1)
                   ELSE s1
         IN IF s2.hstate # "RUNNING" THEN s2 ELSE RunTestPassed(s2)

\* ------------------------------------------------------------------ actions

Running == hstate = "RUNNING" /\ steps < MaxSteps

\* A statement of the callback: it is counted and becomes the last statement.
StmtOf(s, o) == [s EXCEPT !.steps = @ + 1, !.last = o, !.own = OwnAfter(@, o)]

Stmt(o) == StmtOf(St, o)

\* _run_tests after _run_test returned: the failures are counted.
RunTestsCollect(s) ==
    IF s.current = 0 THEN s ELSE [s EXCEPT !.total_failed = @ + s.rc]

\* _run_tests returns total_failed.
RunTestsEnd(s) == [s EXCEPT !.hstate = "SUITE_DONE"]

StartItem(type) ==
    /\ hstate = "IDLE"
    /\ current < number_of_tests
    /\ Commit(RunTestBegin(RunTestsCollect(St), type))

WillReturn(f, v) ==
    /\ Running
    /\ Commit(will_return(Stmt(Op("will_return", f, "-", v, 1)), f, v))

WillReturnCount(f, v, c) ==
    /\ Running
    /\ Commit(will_return_count(Stmt(Op("will_return", f, "-", v, c)), f, v, c))

Mock(f) ==
    /\ Running
    /\ Commit(mock(Stmt(Op("mock", f, "-", 0, 0)), f))

ExpectValue(f, p, v) ==
    /\ Running
    /\ Commit(expect_value(Stmt(Op("expect_value", f, p, v, 1)), f, p, v))

ExpectValueCount(f, p, v, c) ==
    /\ Running
    /\ Commit(expect_value_count(Stmt(Op("expect_value", f, p, v, c)), f, p, v, c))

CheckExpected(f, p, v) ==
    /\ Running
    /\ Commit(check_expected(Stmt(Op("check_expected", f, p, v, 0)), f, p, v))

AssertIntEqual(a, b) ==
    /\ Running
    /\ Commit(_assert_int_equal(Stmt(Op("assert_int_equal", "-", "-", 0, 0)), a, b))

AssertFloatsEqual(e, a) ==
    /\ Running
    /\ Commit(assert_floats_equal(Stmt(Op("assert_floats_equal", "-", "-", 0, 0)), e, a, 1))

Fail ==
    /\ Running
    /\ Commit(_fail(Stmt([Op("fail", "-", "-", 0, 0) EXCEPT !.res = "assert"])))

AssertNull(ptr) ==
    /\ Running
    /\ Commit(assert_null(Stmt(Op("assert_null", "-", "-", ptr, 0)), ptr))

AssertNonNull(ptr) ==
    /\ Running
    /\ Commit(assert_non_null(Stmt(Op("assert_non_null", "-", "-", ptr, 0)), ptr))

\* The allocator returns any address that is not live, or NULL when there is none.
TestMalloc(ptr) ==
    /\ Running
    /\ \/ ptr \in Addrs \ allocated_blocks
       \/ ptr = NULL /\ Addrs \subseteq allocated_blocks
    /\ Commit(_test_malloc(Stmt(Op("test_malloc", "-", "-", ptr, 0)), ptr))

TestFree(ptr) ==
    /\ Running
    /\ Commit(_test_free(Stmt(Op("test_free", "-", "-", ptr, 0)), ptr))

\* Function returns normally.
FunctionReturn ==
    /\ hstate = "RUNNING"
    /\ Commit(RunTestReturned([St EXCEPT !.last = Op("return", "-", "-", 0, 0)]))

\* _run_tests has run its last item and returns.
SuiteDone ==
    /\ hstate = "IDLE"
    /\ current = number_of_tests
    /\ Commit(RunTestsEnd(RunTestsCollect(St)))

\* exit_test called by code that runs between two items or before the first.
OutsideExitTest(quit_application) ==
    /\ hstate = "IDLE"
    /\ steps < MaxSteps
    /\ Commit(exit_test(StmtOf(St, Op("exit_test", "-", "-", quit_application, 0)),
                        quit_application))

\* The statements of a callback, by the part of the framework they use.
ValueQueueStmt ==
    \/ \E f \in Functions, v \in Values : WillReturn(f, v)
    \/ \E f \in Functions : Mock(f)

ValueQueueCountStmt ==
    \E f \in Functions, v \in Values, c \in Counts : WillReturnCount(f, v, c)

ExpectationStmt ==
    \/ \E f \in Functions, p \in Parameters, v \in Values : ExpectValue(f, p, v)
    \/ \E f \in Functions, p \in Parameters, v \in Values : CheckExpected(f, p, v)

ExpectationCountStmt ==
    \E f \in Functions, p \in Parameters, v \in Values, c \in Counts :
        ExpectValueCount(f, p, v, c)

AssertionStmt ==
    \/ \E a \in Values, b \in Values : AssertIntEqual(a, b)
    \/ \E e \in Values, a \in Values : AssertFloatsEqual(e, a)
    \/ Fail

CustomAssertionStmt ==
    \/ \E ptr \in Addrs \cup {NULL} : AssertNull(ptr)
    \/ \E ptr \in Addrs \cup {NULL} : AssertNonNull(ptr)

AllocationStmt ==
    \/ \E ptr \in Addrs \cup {NULL} : TestMalloc(ptr)
    \/ \E ptr \in Addrs \cup {NULL} : TestFree(ptr)

Harness ==
    \/ \E type \in UnitTestFunctionType : StartItem(type)
    \/ FunctionReturn
    \/ SuiteDone

\* Suites whose callbacks use every part of the framework, each registration
\* made with the plain macros (count 1).
Next ==
    \/ Harness
    \/ ValueQueueStmt
    \/ ExpectationStmt
    \/ AssertionStmt
    \/ CustomAssertionStmt
    \/ AllocationStmt

Spec == Init /\ [][Next]_vars

\* Suites whose callbacks assert and allocate, run by a program that may call
\* exit_test itself while no item is running.
NextOutside ==
    \/ Harness
    \/ AssertionStmt
    \/ AllocationStmt
    \/ \E quit_application \in {0, 1} : OutsideExitTest(quit_application)

SpecOutside == Init /\ [][NextOutside]_vars

\* Suites whose callbacks program and read return values, with every count.
NextValueQueue ==
    \/ Harness
    \/ ValueQueueStmt
    \/ ValueQueueCountStmt
    \/ Fail

SpecValueQueue == Init /\ [][NextValueQueue]_vars

\* Suites whose callbacks register and check expectations, with every count.
NextExpect ==
    \/ Harness
    \/ ExpectationStmt
    \/ ExpectationCountStmt
    \/ Fail

SpecExpect == Init /\ [][NextExpect]_vars

\* ------------------------------------------------- setup / test / teardown

\* The callbacks of test_function_type.cpp under _run_test, their malloc and
\* free being test_malloc and test_free (the header's #define malloc test_malloc
\* under UNIT_TESTING).
\* test_setup: *state = malloc(1024).
test_setup(s, ptr) ==
    LET s1 == _test_malloc(s, ptr) IN [s1 EXCEPT !.current_state = ptr]

\* test_add_function: may use *state; it changes nothing.
test_add_function(s) == [s EXCEPT !.last.ret = s.current_state]

\* test_teardown freeing only the block at the lowest address.
test_teardown_LowestOnly(s) ==
    IF s.current_state = 1
    THEN LET s1 == _test_free(s, s.current_state) IN
         IF s1.hstate # "RUNNING" THEN s1
         ELSE [s1 EXCEPT !.current_state = NULL]
    ELSE s

\* test_teardown: if (*state != NULL) { free(*state); *state = NULL; }
test_teardown(s) ==
    IF s.current_state # NULL
    THEN LET s1 == _test_free(s, s.current_state) IN
         IF s1.hstate # "RUNNING" THEN s1
         ELSE [s1 EXCEPT !.current_state = NULL]
    ELSE s

\* The part of the triple the statement o of the current item completes.
TripleAfter(s, o) ==
    LET tr == s.triple IN
    IF /\ o.op = "test_setup" /\ o.val # NULL
       /\ s.function_type = "SETUP" /\ s.last.op = "start"
    THEN [phase |-> "setup", first |-> s.current, base |-> s.check_point]
    ELSE IF /\ o.op = "test_add_function" /\ s.function_type = "TEST"
            /\ tr.phase \in {"setup", "test"} /\ s.current = tr.first + 1
    THEN [tr EXCEPT !.phase = "test"]
    ELSE IF /\ o.op = "test_teardown" /\ s.function_type = "TEARDOWN"
            /\ tr.phase \in {"setup", "test"} /\ s.current = tr.first + 2
            /\ s.last.op = "start"
    THEN [tr EXCEPT !.phase = "teardown"]
    ELSE [tr EXCEPT !.phase = "broken"]

TripleStmt(o) == [Stmt(o) EXCEPT !.triple = TripleAfter(St, o)]

TestSetup(ptr) ==
    /\ Running
    /\ \/ ptr \in Addrs \ allocated_blocks
       \/ ptr = NULL /\ Addrs \subseteq allocated_blocks
    /\ Commit(test_setup(TripleStmt(Op("test_setup", "-", "-", ptr, 0)), ptr))

TestAddFunction ==
    /\ Running
    /\ Commit(test_add_function(TripleStmt(Op("test_add_function", "-", "-", 0, 0))))

TestTeardown ==
    /\ Running
    /\ Commit(test_teardown(
                  TripleStmt(Op("test_teardown", "-", "-", current_state, 0))))

TripleBody ==
    \/ \E ptr \in Addrs \cup {NULL} : TestSetup(ptr)
    \/ TestAddFunction
    \/ TestTeardown

\* Suites of TripleItems items whose callbacks are those of a
\* unit_test_setup_teardown triple, in any role and any order.
InitTriple == InitRun(TripleItems) /\ main_run = NoMain

NextTriple ==
    \/ Harness
    \/ TripleBody

SpecTriple == InitTriple /\ [][NextTriple]_vars

\* ---------------------------------------- main of test_function_type.cpp

\* tests[i].function(&state) with void *state = NULL, for the role's callback.
MainCall(s, role, ptr) ==
    LET s0 == [s EXCEPT !.current_state = NULL] IN
    IF role = "SETUP" THEN test_setup(s0, ptr)
    ELSE IF role = "TEST" THEN test_add_function(s0)
    ELSE test_teardown(s0)

\* One iteration of the loop of main that runs the items of role.
MainLoop(pass, role, ptr) ==
    /\ main_run.pass = pass
    /\ main_run.i <= Len(main_run.tests)
    /\ IF main_run.tests[main_run.i] = role
       THEN /\ \/ ptr \in Addrs \ allocated_blocks
               \/ ptr = NULL /\ (role # "SETUP" \/ Addrs \subseteq allocated_blocks)
            /\ LET s1 == MainCall(St, role, ptr) IN
               /\ CommitState(s1)
               /\ main_run' = [main_run EXCEPT
                      !.i = @ + 1,
                      !.calls = Append(@, [index |-> main_run.i, role |-> role,
                                           seen |-> NULL,
                                           left |-> s1.current_state])]
       ELSE /\ ptr = NULL
            /\ main_run' = [main_run EXCEPT !.i = @ + 1]
            /\ CommitState(St)
    /\ UNCHANGED <<second, scalar, expect_assert, ini, ctx, reader>>

MainSetupLoop == \E ptr \in Addrs \cup {NULL} : MainLoop(1, "SETUP", ptr)
MainTestLoop == MainLoop(2, "TEST", NULL)
MainTeardownLoop == MainLoop(3, "TEARDOWN", NULL)

\* A loop of main ends; after the third, main returns.
MainNextLoop ==
    /\ main_run.pass \in 1..3
    /\ main_run.i > Len(main_run.tests)
    /\ main_run' = [main_run EXCEPT !.pass = @ + 1, !.i = 1]
    /\ CommitState(St)
    /\ UNCHANGED <<second, scalar, expect_assert, ini, ctx, reader>>

\* main is entered with any tests[] of MainTests items.
InitMain ==
    /\ InitRun(0)
    /\ \E tests \in [1..MainTests -> UnitTestFunctionType] :
           main_run = [tests |-> tests, pass |-> 1, i |-> 1, calls |-> <<>>]

NextMain ==
    \/ MainSetupLoop
    \/ MainTestLoop
    \/ MainTeardownLoop
    \/ MainNextLoop

SpecMain == InitMain /\ [][NextMain]_vars

\* --------------------------------------------------------- ini_parse_stream

\* The characters of a line: a name character, blank, the separator, the
\* brackets of a section, the comment prefix.  A string is a sequence of them.
Chars == {"k", " ", "=", "[", "]", ";"}
Texts == UNION {[1..n -> Chars] : n \in 0..3}
INI_START_COMMENT_PREFIXES == {";", "#"}
INI_INLINE_COMMENT_PREFIXES == {";"}

isspace(c) == c \in {" ", "\n"}

RECURSIVE ini_rstrip(_)
ini_rstrip(s) ==
    IF s # <<>> /\ isspace(s[Len(s)]) THEN ini_rstrip(SubSeq(s, 1, Len(s) - 1)) ELSE s

RECURSIVE ini_lskip(_)
ini_lskip(s) == IF s # <<>> /\ isspace(Head(s)) THEN ini_lskip(Tail(s)) ELSE s

\* ini_find_chars_or_comment(s, chars) as the index in s of the first of chars
\* or of an inline comment (its prefix after a blank), Len(s) + 1 for the NUL.
\* chars = {} stands for NULL.
RECURSIVE FindFrom(_, _, _, _)
FindFrom(s, chars, i, was_space) ==
    IF i > Len(s) THEN i
    ELSE IF s[i] \in chars THEN i
    ELSE IF was_space /\ s[i] \in INI_INLINE_COMMENT_PREFIXES THEN i
    ELSE FindFrom(s, chars, i + 1, isspace(s[i]))

ini_find_chars_or_comment(s, chars) == FindFrom(s, chars, 1, FALSE)

\* A line that reads name=value: it begins with a name character and has its
\* separator before any inline comment.
WellFormedPair(line) ==
    /\ line # <<>>
    /\ Head(line) = "k"
    /\ \E i \in 1..Len(line) :
          /\ line[i] = "="
          /\ \A j \in 2..(i - 1) : ~(line[j] = ";" /\ line[j - 1] = " ")

\* The text before the first separator, without trailing blanks.
WellFormedName(line) ==
    LET i == CHOOSE i \in 1..Len(line) :
                 line[i] = "=" /\ \A j \in 1..(i - 1) : line[j] # "="
    IN ini_rstrip(SubSeq(line, 1, i - 1))

\* A line that reads [name]: its first character that is not blank is [ and a
\* ] follows that no inline comment hides.
ClosedHeader(line) ==
    LET s == ini_lskip(line) IN
    /\ s # <<>>
    /\ Head(s) = "["
    /\ \E i \in 2..Len(s) :
          /\ s[i] = "]"
          /\ \A j \in 3..(i - 1) : ~(s[j] = ";" /\ s[j - 1] = " ")

\* The text between [ and the first ].
HeaderName(line) ==
    LET s == ini_lskip(line)
        i == CHOOSE i \in 2..Len(s) :
                 s[i] = "]" /\ \A j \in 2..(i - 1) : s[j] # "]"
    IN SubSeq(s, 2, i - 1)

\* What the loop body finds in a line, apart from section, prev_name and the
\* handler: whether it is blank or a comment, whether it has leading blanks
\* and text (start > line, *start), the branch it takes when it is not a
\* continuation, and the section or name that branch cuts out of it.  fills:
\* the text fills the line buffer (offset == max_line - 1).  The last two
\* fields are kept for the properties.
ScanText(line, max_line) ==
    LET start == ini_rstrip(ini_lskip(line))
        send == ini_find_chars_or_comment(Tail(start), {"]"})
        nend == ini_find_chars_or_comment(start, {"=", ":"})
        closed == start # <<>> /\ Head(start) = "["
                  /\ send <= Len(Tail(start)) /\ Tail(start)[send] = "]"
        paired == start # <<>> /\ Head(start) # "["
                  /\ nend <= Len(start) /\ start[nend] \in {"=", ":"}
    IN [comment |-> start = <<>> \/ Head(start) \in INI_START_COMMENT_PREFIXES,
        continued |-> start # <<>> /\ Len(ini_lskip(line)) < Len(line),
        branch |-> IF start = <<>> THEN "comment"
                   ELSE IF Head(start) = "["
                   THEN IF closed THEN "section" ELSE "bad_section"
                   ELSE IF paired THEN "pair" ELSE "no_value",
        section |-> IF closed THEN SubSeq(Tail(start), 1, send - 1) ELSE <<>>,
        name |-> IF paired THEN ini_rstrip(SubSeq(start, 1, nend - 1)) ELSE <<>>,
        fills |-> Len(line) = max_line - 1,
        wellformed |-> WellFormedPair(line),
        wf_name |-> IF WellFormedPair(line) THEN WellFormedName(line) ELSE <<>>,
        hdr_closed |-> ClosedHeader(line),
        hdr_name |-> IF ClosedHeader(line) THEN HeaderName(line) ELSE <<>>]

\* The texts of up to 3 characters in a line buffer of 4 bytes.
ScanLine(line) == ScanText(line, 4)

\* The lines a reader can return, as the loop body sees them.
Scanned == {ScanLine(line) : line \in Texts}

\* ini_strncpy0 that fills all size bytes with characters of src.
ini_strncpy0_NoTerminator(src, size) ==
    IF Len(src) <= size THEN src ELSE SubSeq(src, 1, size)

\* ini_strncpy0(dest, src, size): at most size - 1 characters of src.
ini_strncpy0(src, size) ==
    IF Len(src) <= size - 1 THEN src ELSE SubSeq(src, 1, size - 1)

\* The loop body without the tests of !error: every error sets error.
ini_parse_line_LastError(p, sc, overlong, more, result) ==
    LET p1 == [p EXCEPT !.lineno = @ + 1]
        p2 == IF overlong /\ more THEN [p1 EXCEPT !.error = p1.lineno] ELSE p1
    IN IF sc.comment THEN p2
       ELSE IF p2.prev_name # <<>> /\ sc.continued
       THEN IF result = 0 THEN [p2 EXCEPT !.error = p2.lineno] ELSE p2
       ELSE IF sc.branch = "section"
       THEN [p2 EXCEPT !.section = ini_strncpy0(sc.section, MaxSection),
                       !.prev_name = <<>>]
       ELSE IF sc.branch = "bad_section"
       THEN [p2 EXCEPT !.error = p2.lineno]
       ELSE IF sc.branch = "pair"
       THEN LET p3 == [p2 EXCEPT !.prev_name = ini_strncpy0(sc.name, MaxName)] IN
            IF result = 0 THEN [p3 EXCEPT !.error = p3.lineno] ELSE p3
       ELSE [p2 EXCEPT !.error = p2.lineno]

\* The body of the while loop for the line the reader returned: lineno ++, the
\* line that does not fit (overlong; more: reader had more of it for abyss),
\* then the branch of the line.  result is what the handler returns if called.
ini_parse_line(p, sc, overlong, more, result) ==
    LET p1 == [p EXCEPT !.lineno = @ + 1]
        p2 == IF overlong /\ more /\ p1.error = 0
              THEN [p1 EXCEPT !.error = p1.lineno] ELSE p1
    IN IF sc.comment THEN p2
       ELSE IF p2.prev_name # <<>> /\ sc.continued
       THEN IF result = 0 /\ p2.error = 0 THEN [p2 EXCEPT !.error = p2.lineno] ELSE p2
       ELSE IF sc.branch = "section"
       THEN [p2 EXCEPT !.section = ini_strncpy0(sc.section, MaxSection),
                       !.prev_name = <<>>]
       ELSE IF sc.branch = "bad_section"
       THEN IF p2.error = 0 THEN [p2 EXCEPT !.error = p2.lineno] ELSE p2
       ELSE IF sc.branch = "pair"
       THEN LET p3 == [p2 EXCEPT !.prev_name = ini_strncpy0(sc.name, MaxName)] IN
            IF result = 0 /\ p3.error = 0 THEN [p3 EXCEPT !.error = p3.lineno] ELSE p3
       ELSE IF p2.error = 0 THEN [p2 EXCEPT !.error = p2.lineno] ELSE p2

\* HANDLER no longer called once error is set.
HandlerCall_StopAfterError(p, sc) ==
    IF sc.comment \/ p.error # 0 THEN NoLine
    ELSE IF p.prev_name # <<>> /\ sc.continued
    THEN [NoLine EXCEPT !.invoked = TRUE, !.section = p.section, !.name = p.prev_name]
    ELSE IF sc.branch = "pair"
    THEN [NoLine EXCEPT !.invoked = TRUE, !.section = p.section, !.name = sc.name]
    ELSE NoLine

\* HANDLER(user, section, name, value) as the loop body calls it for the line:
\* none for a line that takes another branch.
HandlerCall(p, sc) ==
    IF sc.comment THEN NoLine
    ELSE IF p.prev_name # <<>> /\ sc.continued
    THEN [NoLine EXCEPT !.invoked = TRUE, !.section = p.section, !.name = p.prev_name]
    ELSE IF sc.branch = "pair"
    THEN [NoLine EXCEPT !.invoked = TRUE, !.section = p.section, !.name = sc.name]
    ELSE NoLine

\* The line is one of the errors: it does not fit, its section header has no
\* ], it has no separator, or the handler returned 0 for it.
LineIsBad(sc, overlong, more, call) ==
    \/ overlong /\ more
    \/ call.invoked /\ call.result = 0
    \/ ~call.invoked /\ ~sc.comment /\ sc.branch \in {"bad_section", "no_value"}

CommitIni(p) ==
    /\ ini' = p
    /\ CommitState(St)
    /\ UNCHANGED <<main_run, second, scalar, expect_assert, ctx, reader>>

\* The first n characters of s, all of s when it is shorter.
FirstChars(s, n) == [i \in 1..(IF Len(s) < n THEN Len(s) ELSE n) |-> s[i]]

\* The kind of a line as its text and the lines before it tell.
LineKind(p, sc) ==
    IF sc.comment THEN "blank"
    ELSE IF sc.continued /\ p.pair_name # <<>> THEN "continuation"
    ELSE IF sc.hdr_closed THEN "header"
    ELSE IF sc.branch \in {"section", "bad_section"} THEN "open_header"
    ELSE IF sc.branch = "pair" THEN "pair"
    ELSE "other"

\* What is kept of the line for the properties.
LineHandled(p, sc, overlong, more, result) ==
    LET call == [HandlerCall(p, sc) EXCEPT !.result = result] IN
    [call EXCEPT !.bad = LineIsBad(sc, overlong, more, call),
                 !.wellformed = sc.wellformed /\ ~overlong,
                 !.wf_name = sc.wf_name,
                 !.kind = LineKind(p, sc)]

\* reader returns a line: sc is what the loop body finds in its text, newline
\* says it ended with '\n', more that reader had more of an overlong line to
\* give, to_eof that the stream ended with this line.  The loop body runs; with
\* INI_STOP_ON_FIRST_ERROR an error breaks the loop and error is returned.
IniReadLine(sc, newline, more, to_eof, result) ==
    /\ ini.pc = "loop"
    /\ ini.lineno < MaxLines
    /\ newline => ~sc.fills /\ ~to_eof
    /\ more => sc.fills /\ ~newline
    /\ (~newline /\ ~more) => to_eof
    /\ ~HandlerCall(ini, sc).invoked => result = 1
    /\ LET overlong == sc.fills /\ ~newline
           p == ini_parse_line(ini, sc, overlong, more, result)
           ln == LineHandled(ini, sc, overlong, more, result)
           stop == INI_STOP_ON_FIRST_ERROR # 0 /\ p.error # 0
       IN CommitIni([p EXCEPT
              !.pc = IF stop THEN "done" ELSE IF to_eof THEN "at_eof" ELSE "loop",
              !.ret = IF stop THEN p.error ELSE @,
              !.calls = IF ln.invoked THEN @ + 1 ELSE @,
              !.zero_at = IF @ = 0 /\ ln.invoked /\ result = 0 THEN p.lineno ELSE @,
              !.first_bad = IF @ = 0 /\ ln.bad THEN p.lineno ELSE @,
              !.last = ln,
              !.hdr = IF ln.kind = "header"
                      THEN FirstChars(sc.hdr_name, MaxSection - 1) ELSE @,
              !.hdr_cut = IF ln.kind = "header"
                          THEN Len(sc.hdr_name) > MaxSection - 1 ELSE @,
              !.pair_name = IF ln.kind = "header" THEN <<>>
                            ELSE IF ln.kind = "pair" THEN ln.name ELSE @,
              !.pair_section = IF ln.kind = "header" THEN <<>>
                               ELSE IF ln.kind = "pair" THEN ln.section ELSE @])

\* reader returns NULL: the loop ends and ini_parse_stream returns error.
IniEof ==
    /\ ini.pc \in {"loop", "at_eof"}
    /\ CommitIni([ini EXCEPT !.pc = "done", !.ret = ini.error])

\* ini_parse_stream on every stream of up to MaxLines lines, with a handler
\* that may return 0 for any line.
InitIni == InitRun(0) /\ main_run = NoMain

NextIni ==
    \/ \E sc \in Scanned, newline \in BOOLEAN, more \in BOOLEAN,
          to_eof \in BOOLEAN, result \in {0, 1} :
           IniReadLine(sc, newline, more, to_eof, result)
    \/ IniEof

SpecIni == InitIni /\ [][NextIni]_vars

\* ------------------------------------------------------ ini_reader_string

Bytes == {"k", "=", "\n"}
Strings == UNION {[1..n -> Bytes] : n \in 0..MaxString}

\* The while loop of ini_reader_string: <<bytes moved past, bytes copied>>.
RECURSIVE reader_loop(_, _, _, _, _)
reader_loop(string, ptr, num_left, num, strp) ==
    IF num > 1 /\ num_left # 0
    THEN LET c == string[ptr + 1] IN
         IF c = "\n" THEN <<ptr + 1, Append(strp, c)>>
         ELSE reader_loop(string, ptr + 1, num_left - 1, num - 1, Append(strp, c))
    ELSE <<ptr, strp>>

\* ini_reader_string without the break at '\n'.
ini_reader_string_NoBreak(c, num) ==
    IF c.num_left = 0 \/ num < 2
    THEN [c EXCEPT !.null = TRUE, !.chunk = <<>>, !.num = num, !.calls = @ + 1]
    ELSE LET n == IF c.num_left < num - 1 THEN c.num_left ELSE num - 1
             r == SubSeq(c.string, c.ptr + 1, c.ptr + n)
         IN [c EXCEPT !.ptr = @ + n, !.num_left = @ - n,
                      !.null = FALSE, !.chunk = r, !.out = @ \o r,
                      !.num = num, !.calls = @ + 1]

\* ini_reader_string(str, num, stream): NULL, or the bytes copied to str.
ini_reader_string(c, num) ==
    IF c.num_left = 0 \/ num < 2
    THEN [c EXCEPT !.null = TRUE, !.chunk = <<>>, !.num = num, !.calls = @ + 1]
    ELSE LET r == reader_loop(c.string, c.ptr, c.num_left, num, <<>>) IN
         [c EXCEPT !.ptr = r[1], !.num_left = @ - (r[1] - c.ptr),
                   !.null = FALSE, !.chunk = r[2], !.out = @ \o r[2],
                   !.num = num, !.calls = @ + 1]

CommitCtx(c, p) ==
    /\ ctx' = c
    /\ ini' = p
    /\ CommitState(St)
    /\ UNCHANGED <<main_run, second, scalar, expect_assert, reader>>

\* ini_parse_string_length(string, length, handler, user): ctx.ptr = string,
\* ctx.num_left = length, and ini_parse_stream is entered.
IniParseStringLength(string, length, max_line) ==
    /\ ctx.pc = "idle"
    /\ CommitCtx([NoCtx EXCEPT !.pc = "line", !.string = string, !.length = length,
                               !.max_line = max_line, !.num_left = length],
                 NoIni)

\* The loop body for the line in the buffer, once the abyss loop, if any, is
\* over.
\* What the loop body finds in every line the buffer can hold.
ReaderScans ==
    [line \in UNION {[1..n -> Bytes] : n \in 0..(MaxBuffer - 1)}, max_line \in 1..MaxBuffer
        |-> ScanText(line, max_line)]

ParseBuffer(p, line, max_line, overlong, more, result) ==
    LET sc == ReaderScans[line, max_line]
        q == ini_parse_line(p, sc, overlong, more, result)
        ln == LineHandled(p, sc, overlong, more, result)
    IN [q EXCEPT !.calls = IF ln.invoked THEN @ + 1 ELSE @,
                 !.zero_at = IF @ = 0 /\ ln.invoked /\ result = 0 THEN q.lineno ELSE @,
                 !.last = ln]

\* while (reader(line, (int)max_line, stream) != NULL): NULL ends the loop and
\* error is returned; a line that fills the buffer without its '\n' sends the
\* body to the abyss loop first.
ReaderLine(result) ==
    /\ ctx.pc = "line"
    /\ LET c == [ini_reader_string(ctx, ctx.max_line) EXCEPT !.start = ctx.ptr]
           offset == Len(c.chunk)
           overlong == ~c.null /\ offset = c.max_line - 1 /\ c.chunk[offset] # "\n"
       IN /\ (c.null \/ overlong
                \/ ~HandlerCall(ini, ReaderScans[c.chunk, c.max_line]).invoked) => result = 1
          /\ IF c.null
             THEN CommitCtx([c EXCEPT !.pc = "done"],
                            [ini EXCEPT !.pc = "done", !.ret = ini.error])
             ELSE IF overlong
             THEN CommitCtx([c EXCEPT !.pc = "abyss", !.line = c.chunk, !.more = FALSE],
                            ini)
             ELSE CommitCtx([c EXCEPT !.line = c.chunk],
                            ParseBuffer(ini, c.chunk, c.max_line, FALSE, FALSE, result))

\* The abyss loop as an if: one call of reader and the body goes on.
ReaderAbyss_Once(result) ==
    /\ ctx.pc = "abyss"
    /\ LET c == ini_reader_string(ctx, AbyssSize)
           more == ctx.more \/ ~c.null
       IN /\ ~HandlerCall(ini, ReaderScans[ctx.line, ctx.max_line]).invoked => result = 1
          /\ CommitCtx([c EXCEPT !.pc = "line", !.more = more],
                       ParseBuffer(ini, ctx.line, ctx.max_line, TRUE, more, result))

\* while (reader(abyss, sizeof(abyss), stream) != NULL): NULL and a chunk that
\* ends with '\n' end the loop, and the body goes on with the line in the buffer.
ReaderAbyss(result) ==
    /\ ctx.pc = "abyss"
    /\ LET c == ini_reader_string(ctx, AbyssSize)
           more == ctx.more \/ ~c.null
       IN /\ ~HandlerCall(ini, ReaderScans[ctx.line, ctx.max_line]).invoked => result = 1
          /\ IF c.null \/ c.chunk[Len(c.chunk)] = "\n"
             THEN CommitCtx([c EXCEPT !.pc = "line", !.more = more],
                            ParseBuffer(ini, ctx.line, ctx.max_line, TRUE, more, result))
             ELSE /\ result = 1
                  /\ CommitCtx([c EXCEPT !.more = more], ini)

InitReader == InitRun(0) /\ main_run = NoMain

NextReader ==
    \/ \E string \in Strings, max_line \in 1..MaxBuffer :
          \E length \in 0..Len(string) : IniParseStringLength(string, length, max_line)
    \/ \E result \in {0, 1} : ReaderLine(result)
    \/ \E result \in {0, 1} : ReaderAbyss(result)

\* ini_parse_string_length, once called, goes on until it returns.
SpecReader ==
    /\ InitReader
    /\ [][NextReader]_vars
    /\ WF_vars(\E result \in {0, 1} : ReaderLine(result))
    /\ WF_vars(\E result \in {0, 1} : ReaderAbyss(result))

\* Lines with names and section names up to one character longer than
\* prev_name[] and section[] hold, none of which fills the line buffer.
Ks(n) == [i \in 1..n |-> "k"]
NameBufferSize == MaxSection + MaxName + 4
NameTexts ==
    {<<>>, <<";">>, <<"k">>, <<" ", "k">>, <<"[", "k">>, <<"[", " ", ";", "]">>,
     <<"=", "k">>, <<" ", "[", "k", "]">>}
    \cup {<<"[">> \o Ks(n) \o <<"]">> : n \in 1..MaxSection}
    \cup {Ks(n) \o <<"=">> : n \in 1..MaxName}

ScannedNames == {ScanText(line, NameBufferSize) : line \in NameTexts}

NextIniNames ==
    \/ \E sc \in ScannedNames, newline \in BOOLEAN, to_eof \in BOOLEAN, result \in {0, 1} :
           IniReadLine(sc, newline, FALSE, to_eof, result)
    \/ IniEof

SpecIniNames == InitIni /\ [][NextIniNames]_vars

\* ---------------------------------------------------------------- INIReader

\* A const char*: NULL, or a pointer to the text str.
NullStr == [null |-> TRUE, str |-> <<>>]
CStr(str) == [null |-> FALSE, str |-> str]

KeySections == {<<"s">>, <<"S">>}
KeyNames == {<<"n">>, <<"m">>}
KeyValues == {<<>>, <<"v">>}
AskedSections == KeySections \cup {<<"t">>}
DefaultValue == <<"d">>

\* ::tolower on the characters the keys are made of.
tolower(ch) ==
    CASE ch = "S" -> "s"
      [] ch = "N" -> "n"
      [] ch = "M" -> "m"
      [] ch = "T" -> "t"
      [] OTHER -> ch

\* INIReader::MakeKey(section, name): section + "=" + name in lower case.
MakeKey(section, name) ==
    LET key == section \o <<"=">> \o name IN
    [i \in 1..Len(key) |-> tolower(key[i])]

\* _values as a function from the keys it has to their strings; _values[key]
\* inserts the empty string for a key it does not have.
count(values, key) == IF key \in DOMAIN values THEN 1 ELSE 0
at(values, key) == IF key \in DOMAIN values THEN values[key] ELSE <<>>
put(values, key, str) == [k \in DOMAIN values \cup {key} |-> IF k = key THEN str ELSE values[k]]

\* INIReader::ValueHandler(user, section, name, value); it returns 1.
ValueHandler(r, section, name, value) ==
    IF name.null
    THEN r
    ELSE LET key == MakeKey(section.str, name.str)
             old == at(r._values, key)
             sep == IF Len(old) > 0 THEN old \o <<"\n">> ELSE old
         IN [r EXCEPT !._values = put(@, key, sep \o (IF ~value.null THEN value.str ELSE <<>>))]

\* INIReader::Get(section, name, default_value).
Get(r, section, name, default_value) ==
    LET key == MakeKey(section, name) IN
    IF count(r._values, key) # 0 THEN r._values[key] ELSE default_value

CommitReader(r) ==
    /\ reader' = r
    /\ CommitState(St)
    /\ UNCHANGED <<main_run, second, scalar, expect_assert, ini, ctx>>

\* ini_parse calls the handler for a line of the file.
INIReaderHandler(section, name, value) ==
    /\ reader.pc = "parsing"
    /\ reader.calls < MaxValues
    /\ LET r == ValueHandler(reader, section, name, value) IN
       CommitReader([r EXCEPT
           !.calls = @ + 1,
           !.delivered = IF name.null THEN @
                         ELSE Append(@, [section |-> section.str, name |-> name.str,
                                         value |-> value])])

\* ini_parse returns and the constructor with it.
INIReaderParsed ==
    /\ reader.pc = "parsing"
    /\ CommitReader([reader EXCEPT !.pc = "parsed"])

\* A caller asks the constructed reader for a value.
INIReaderGet(section, name, default_value) ==
    /\ reader.pc = "parsed"
    /\ CommitReader([reader EXCEPT
           !.got = [asked |-> TRUE, section |-> section, name |-> name,
                    default_value |-> default_value,
                    ret |-> Get(reader, section, name, default_value)]])

InitINIReader == InitRun(0) /\ main_run = NoMain

NextINIReader ==
    \/ \E section \in KeySections, name \in KeyNames, value \in KeyValues :
          INIReaderHandler(CStr(section), CStr(name), CStr(value))
    \/ \E section \in KeySections, name \in KeyNames :
          INIReaderHandler(CStr(section), CStr(name), NullStr)
    \/ INIReaderHandler(CStr(<<"s">>), NullStr, NullStr)
    \/ INIReaderParsed
    \/ \E section \in AskedSections, name \in KeyNames :
          INIReaderGet(section, name, DefaultValue)

SpecINIReader == InitINIReader /\ [][NextINIReader]_vars

\* --------------------------------------------------- expect_assert_failure

\* (int)(intptr_t)expression: what is left of the pointer to the expression's
\* text when it is passed to longjmp as an int.
TruncatedPointers == {0, 5}

\* setjmp returns val after longjmp(env, val), and 1 if val is 0.
longjmp_value(val) == IF val = 0 THEN 1 ELSE val

CommitAssert(s, e) ==
    CommitState(s) /\ expect_assert' = e /\ UNCHANGED <<main_run, second, scalar, ini, ctx, reader>>

\* expect_assert_failure from setjmp's second return on:
\* global_expecting_assert = 1; if (expression) { print_message(...,
\* *((const char**)&expression)); global_expecting_assert = 0; }.  The read of
\* a const char* from the int expression is undefined where a pointer is wider
\* than an int: with fault the process ends in print_message.
expect_assert_failure_caught(s, e, val, fault) ==
    LET e1 == [e EXCEPT !.expression = longjmp_value(val),
                        !.global_expecting_assert = 1]
    IN IF e1.expression # 0
       THEN IF fault
            THEN <<[s EXCEPT !.hstate = "EXITED"], [e1 EXCEPT !.pc = "out"]>>
            ELSE <<s, [e1 EXCEPT !.global_expecting_assert = 0, !.pc = "after"]>>
       ELSE <<s, e1>>

\* longjmp(global_expect_assert_env, ...) when the expect_assert_failure that
\* filled global_expect_assert_env has been left: the callback that called
\* setjmp has returned, and the behaviour is undefined.  With fault the process
\* ends; without, control is taken to land in the macro's code and to go on.
longjmp_stale(s, e, val, fault) ==
    IF fault
    THEN <<[s EXCEPT !.hstate = "EXITED", !.last.res = "stale_jump"], e>>
    ELSE <<[s EXCEPT !.last.res = "stale_jump"],
           [e EXCEPT !.expression = longjmp_value(val),
                     !.global_expecting_assert = 0]>>

\* mock_assert(result, expression, file, line): a false result is thrown to
\* expect_assert_failure when one is waiting and fails the test otherwise.
mock_assert(s, e, result, val, fault) ==
    IF result # 0 THEN <<s, e>>
    ELSE IF e.global_expecting_assert # 0
    THEN IF e.pc = "call"
         THEN expect_assert_failure_caught(s, e, val, fault)
         ELSE longjmp_stale(s, e, val, fault)
    ELSE <<_fail([s EXCEPT !.last.res = "assert"]), [e EXCEPT !.pc = "out"]>>

\* expect_assert_failure after function_call returned:
\* global_expecting_assert = 0; print_error(...); _fail(__FILE__, __LINE__).
expect_assert_failure_returned(s, e) ==
    <<_fail([s EXCEPT !.last = [Op("expect_assert_failure", "-", "-", 0, 0)
                                   EXCEPT !.res = "no_assert"]]),
      [e EXCEPT !.global_expecting_assert = 0, !.pc = "out"]>>

\* expect_assert_failure up to function_call: setjmp returns 0,
\* global_expecting_assert = 1.
ExpectAssertFailure ==
    /\ Running
    /\ expect_assert.pc # "call"
    /\ CommitAssert(Stmt(Op("expect_assert_failure", "-", "-", 0, 0)),
                    [global_expecting_assert |-> 1, pc |-> "call", expression |-> 0])

\* The code under test evaluates assert(result).
MockAssert(result, val, fault) ==
    /\ Running
    /\ LET r == mock_assert(Stmt(Op("mock_assert", "-", "-", result, 0)),
                            expect_assert, result, val, fault)
       IN CommitAssert(r[1], r[2])

\* function_call returns into the macro.
ExpectAssertCallReturns ==
    /\ hstate = "RUNNING"
    /\ expect_assert.pc = "call"
    /\ LET r == expect_assert_failure_returned(St, expect_assert)
       IN CommitAssert(r[1], r[2])

\* function_call fails a check of the framework: _fail leaves the item through
\* exit_test's longjmp, past the rest of the macro.
ExpectAssertCallFails ==
    /\ Running
    /\ expect_assert.pc = "call"
    /\ CommitAssert(_fail(Stmt([Op("fail", "-", "-", 0, 0) EXCEPT !.res = "assert"])),
                    [expect_assert EXCEPT !.pc = "out"])

\* The callback returns; it cannot while function_call is being executed.
ExpectAssertItemReturn ==
    /\ hstate = "RUNNING"
    /\ expect_assert.pc # "call"
    /\ CommitAssert(RunTestReturned([St EXCEPT !.last = Op("return", "-", "-", 0, 0)]),
                    [expect_assert EXCEPT !.pc = "out"])

\* Suites whose callbacks use expect_assert_failure on code that calls
\* mock_assert.
InitAssert == InitRun(NumItems) /\ main_run = NoMain

NextAssert ==
    \/ \E type \in UnitTestFunctionType : StartItem(type)
    \/ ExpectAssertFailure
    \/ \E result \in {0, 1}, val \in TruncatedPointers, fault \in BOOLEAN :
           MockAssert(result, val, fault)
    \/ ExpectAssertCallReturns
    \/ ExpectAssertItemReturn
    \/ SuiteDone

SpecAssert == InitAssert /\ [][NextAssert]_vars

\* The same suites, with wrapped calls that may also fail a check of the
\* framework.
NextAssertFails ==
    \/ NextAssert
    \/ ExpectAssertCallFails

SpecAssertFails == InitAssert /\ [][NextAssertFails]_vars

\* ------------------------------------------------ scalar checks, widened

RECURSIVE Pow2(_)
Pow2(n) == IF n = 0 THEN 1 ELSE 2 * Pow2(n - 1)

\* An object of a native integer type: signed or unsigned, bits wide, holding
\* the bit pattern bitpattern.  LargestIntegralType is unsigned, WidthBits wide.
NativeObjects ==
    UNION {[signed : {s}, bits : {b}, bitpattern : 0..(Pow2(b) - 1)] :
               s \in BOOLEAN, b \in 2..WidthBits}

\* The objects of type int (signed, narrower than LargestIntegralType).
IntObjects == {x \in NativeObjects : x.signed /\ x.bits = WidthBits - 1}

\* The integer an object holds (two's complement for the signed types).
ValueOf(x) ==
    IF x.signed /\ x.bitpattern >= Pow2(x.bits - 1)
    THEN x.bitpattern - Pow2(x.bits)
    ELSE x.bitpattern

\* cast_to_largest_integral_type widening every object as if it were unsigned.
cast_to_largest_integral_type_ZeroExtend(x) == x.bitpattern

\* (LargestIntegralType)(value): a negative signed value is sign-extended, any
\* other value is zero-extended.
cast_to_largest_integral_type(x) ==
    IF x.signed /\ x.bitpattern >= Pow2(x.bits - 1)
    THEN x.bitpattern + (Pow2(WidthBits) - Pow2(x.bits))
    ELSE x.bitpattern

\* The predicate of an ExcludedValue event.
check_not_value(event, value) == value # event.value

\* The inclusive bounds check on the values the check receives.
integer_in_range(value, range_min, range_max) ==
    value >= range_min /\ value <= range_max

\* The predicates of the ValueInRange and ValueNotInRange events.
check_in_range(event, value) == integer_in_range(value, event.minimum, event.maximum)

check_not_in_range(event, value) ==
    ~integer_in_range(value, event.minimum, event.maximum)

\* _expect_in_range's parameters minimum and maximum are LargestIntegralType:
\* the arguments are converted at the call.
_expect_in_range(minimum, maximum) ==
    [minimum |-> cast_to_largest_integral_type(minimum),
     maximum |-> cast_to_largest_integral_type(maximum)]

_expect_not_in_range(minimum, maximum) ==
    [minimum |-> cast_to_largest_integral_type(minimum),
     maximum |-> cast_to_largest_integral_type(maximum)]

_assert_in_range(value, minimum, maximum) == integer_in_range(value, minimum, maximum)

_assert_not_in_range(value, minimum, maximum) ==
    ~integer_in_range(value, minimum, maximum)

CommitScalar(r) == scalar' = r /\ CommitState(St) /\ UNCHANGED <<main_run, second, expect_assert, ini, ctx, reader>>

\* expect_value(f, p, value) in the test, check_expected(p) in the mocked
\* function called with actual.
ExpectValueCheck ==
    /\ scalar.op = "none"
    /\ \E value \in NativeObjects, actual \in NativeObjects :
       CommitScalar([op |-> "expect_value", value |-> value, actual |-> actual,
           passed |-> check_value([value |-> cast_to_largest_integral_type(value)],
                                  cast_to_largest_integral_type(actual))])

ExpectNotValueCheck ==
    /\ scalar.op = "none"
    /\ \E value \in NativeObjects, actual \in NativeObjects :
       CommitScalar([op |-> "expect_not_value", value |-> value, actual |-> actual,
           passed |-> check_not_value([value |-> cast_to_largest_integral_type(value)],
                                      cast_to_largest_integral_type(actual))])

ExpectInRangeCheck ==
    /\ scalar.op = "none"
    /\ \E minimum \in IntObjects, maximum \in IntObjects, actual \in IntObjects :
       CommitScalar([op |-> "expect_in_range", minimum |-> minimum,
           maximum |-> maximum, actual |-> actual,
           passed |-> check_in_range(_expect_in_range(minimum, maximum),
                                     cast_to_largest_integral_type(actual))])

ExpectNotInRangeCheck ==
    /\ scalar.op = "none"
    /\ \E minimum \in IntObjects, maximum \in IntObjects, actual \in IntObjects :
       CommitScalar([op |-> "expect_not_in_range", minimum |-> minimum,
           maximum |-> maximum, actual |-> actual,
           passed |-> check_not_in_range(_expect_not_in_range(minimum, maximum),
                                         cast_to_largest_integral_type(actual))])

AssertInRange ==
    /\ scalar.op = "none"
    /\ \E minimum \in IntObjects, maximum \in IntObjects, value \in IntObjects :
       CommitScalar([op |-> "assert_in_range", minimum |-> minimum,
           maximum |-> maximum, actual |-> value,
           passed |-> _assert_in_range(cast_to_largest_integral_type(value),
                                       cast_to_largest_integral_type(minimum),
                                       cast_to_largest_integral_type(maximum))])

AssertNotInRange ==
    /\ scalar.op = "none"
    /\ \E minimum \in IntObjects, maximum \in IntObjects, value \in IntObjects :
       CommitScalar([op |-> "assert_not_in_range", minimum |-> minimum,
           maximum |-> maximum, actual |-> value,
           passed |-> _assert_not_in_range(cast_to_largest_integral_type(value),
                                           cast_to_largest_integral_type(minimum),
                                           cast_to_largest_integral_type(maximum))])

\* One scalar check at a time, on objects of every native type for the value
\* checks and on ints for the range checks.
InitScalar == InitRun(0) /\ main_run = NoMain

NextScalar ==
    \/ ExpectValueCheck
    \/ ExpectNotValueCheck
    \/ ExpectInRangeCheck
    \/ ExpectNotInRangeCheck
    \/ AssertInRange
    \/ AssertNotInRange

SpecScalar == InitScalar /\ [][NextScalar]_vars

\* ------------------------------------------- the same suite, executed twice

\* Both executions take the same step; s1 and s2 are their next states.
CommitTwice(s1, s2) ==
    CommitState(s1) /\ second' = s2 /\ UNCHANGED <<main_run, scalar, expect_assert, ini, ctx, reader>>

\* malloc may return ptr in the state s.
MayAllocate(s, ptr) ==
    \/ ptr \in Addrs \ s.allocated_blocks
    \/ ptr = NULL /\ Addrs \subseteq s.allocated_blocks

TwiceStartItem(type) ==
    /\ hstate = "IDLE"
    /\ current < number_of_tests
    /\ CommitTwice(RunTestBegin(RunTestsCollect(St), type),
                   RunTestBegin(RunTestsCollect(second), type))

\* The statement will_return(f, v) of the callback, in both executions.
TwiceWillReturn(f, v) ==
    /\ Running
    /\ LET o == Op("will_return", f, "-", v, 1) IN
       CommitTwice(will_return(StmtOf(St, o), f, v),
                   will_return(StmtOf(second, o), f, v))

TwiceMock(f) ==
    /\ Running
    /\ LET o == Op("mock", f, "-", 0, 0) IN
       CommitTwice(mock(StmtOf(St, o), f), mock(StmtOf(second, o), f))

\* test_setup's body; the allocator answers each execution on its own.
TwiceTestSetup(ptr1, ptr2) ==
    /\ Running
    /\ MayAllocate(St, ptr1)
    /\ MayAllocate(second, ptr2)
    /\ CommitTwice(test_setup(StmtOf(St, Op("test_malloc", "-", "-", ptr1, 0)), ptr1),
                   test_setup(StmtOf(second, Op("test_malloc", "-", "-", ptr2, 0)), ptr2))

\* test_teardown's body: each execution frees what its own *state holds.
TwiceTestTeardown ==
    /\ Running
    /\ CommitTwice(
          test_teardown(StmtOf(St, Op("test_free", "-", "-", current_state, 0))),
          test_teardown(StmtOf(second, Op("test_free", "-", "-", second.current_state, 0))))

TwiceFunctionReturn ==
    /\ hstate = "RUNNING"
    /\ LET o == Op("return", "-", "-", 0, 0) IN
       CommitTwice(RunTestReturned([St EXCEPT !.last = o]),
                   RunTestReturned([second EXCEPT !.last = o]))

TwiceSuiteDone ==
    /\ hstate = "IDLE"
    /\ current = number_of_tests
    /\ CommitTwice(RunTestsEnd(RunTestsCollect(St)),
                   RunTestsEnd(RunTestsCollect(second)))

\* Two executions of one suite of NumItems items, statement by statement; the
\* callbacks program and read return values and allocate through *state.
InitTwice == InitRun(NumItems) /\ main_run = NoMain

NextTwice ==
    \/ \E type \in UnitTestFunctionType : TwiceStartItem(type)
    \/ \E f \in Functions, v \in Values : TwiceWillReturn(f, v)
    \/ \E f \in Functions : TwiceMock(f)
    \/ \E ptr1 \in Addrs \cup {NULL}, ptr2 \in Addrs \cup {NULL} : TwiceTestSetup(ptr1, ptr2)
    \/ TwiceTestTeardown
    \/ TwiceFunctionReturn
    \/ TwiceSuiteDone

SpecTwice == InitTwice /\ [][NextTwice]_vars

\* ------------------------------------------------------------------ claims

\* The uses a queue still holds, one element per use, in the order they are served.
Copies(v, n) == [i \in 1..n |-> v]

RECURSIVE Expand(_)
Expand(q) ==
    IF q = <<>> THEN <<>>
    ELSE Copies(Head(q).value, Head(q).count) \o Expand(Tail(q))

Finite(q) == \A i \in 1..Len(q) : q[i].count # INFINITE

\* This step executes a statement of the callback / is the callback's return.
IsStmt(o) == steps' = steps + 1 /\ last'.op = o
IsReturn == hstate = "RUNNING" /\ last'.op = "return"

\* The current item registered only limited counts, consumed every use it
\* registered, and freed every block it allocated.
WellBehaved ==
    /\ ~own.unlimited
    /\ \A f \in Functions : own.ret[f] = 0
    /\ \A k \in Keys : own.exp[k] = 0
    /\ own.blocks = {}

\* C1: forward progress.  Every item is invoked exactly once and gets a verdict,
\* and the run reaches SUITE_DONE: the process never ends before that unless a
\* mock read found its queue empty (FatalMisuse), whatever failures the items had.
C1_ForwardProgress ==
    /\ \A i \in 1..NumItems : invoked[i] <= 1
    /\ \A i \in 1..NumItems : i < current => invoked[i] = 1 /\ verdict[i] # "NONE"
    /\ hstate = "EXITED" => last.res = "fatal_misuse"
    /\ hstate = "SUITE_DONE" =>
           \A i \in 1..NumItems : invoked[i] = 1 /\ verdict[i] # "NONE"

\* C2: the ValueQueue of a function is FIFO with repeat counts.  A will_return
\* with count k appends k uses of its value behind the uses already queued, a
\* mock read returns the first queued use and removes exactly that one, and
\* no statement changes the queue of another function.
C2_FifoRepeat ==
    [][\A f \in Functions :
         LET q == function_result_map[f]
             q2 == function_result_map'[f]
         IN Finite(q) =>
              /\ (IsStmt("will_return") /\ last'.fn = f /\ last'.cnt # INFINITE)
                     => Expand(q2) = Expand(q) \o Copies(last'.val, last'.cnt)
              /\ (IsStmt("mock") /\ last'.fn = f /\ q # <<>>)
                     => /\ last'.ret = Head(Expand(q))
                        /\ Expand(q2) = Tail(Expand(q))
                        /\ hstate' = "RUNNING"
              /\ (last'.fn # f \/ last'.op \notin {"will_return", "mock"})
                     => q2 = q
      ]_vars

\* A read returned the first use of an entry registered with count 2; its
\* second use and the entry registered after it are still queued, in order.
C2_Witness ==
    /\ last.op = "mock" /\ last.fn = "F" /\ last.ret = 5
    /\ function_result_map["F"] =
           <<[value |-> 5, count |-> 1], [value |-> 6, count |-> 1]>>

C4_MissingExpectation ==
    [][/\ (IsStmt("check_expected")
           /\ function_parameter_map[<<last'.fn, last'.par>>] = <<>>)
              => /\ last'.res = "missing"
                 /\ hstate' = "IDLE"
                 /\ global_running_test' = 0
                 /\ verdict' = [verdict EXCEPT ![current] = "FAILED"]
                 /\ exit_status' = exit_status
       /\ (last.res = "missing" /\ current < NumItems)
              => /\ hstate' = "RUNNING"
                 /\ current' = current + 1
       /\ (/\ last.op = "expect_value" /\ last.cnt = 1
           /\ Len(function_parameter_map[<<last.fn, last.par>>]) = 1
           /\ IsStmt("check_expected")
           /\ last'.fn = last.fn /\ last'.par = last.par /\ last'.val = last.val)
              => /\ last'.res = "ok"
                 /\ function_parameter_map'[<<last.fn, last.par>>] = <<>>
      ]_vars

\* The second check that followed a single expect_value failed the item, and
\* the harness is ready to start the next one.
C4_Witness ==
    /\ last.op = "check_expected" /\ last.res = "missing"
    /\ own.expreg[<<last.fn, last.par>>] = 1 /\ own.exp[<<last.fn, last.par>>] = -1
    /\ hstate = "IDLE" /\ verdict[current] = "FAILED" /\ current < NumItems

\* C5: an assertion failure raised in a test body by any assertion macro
\* (assert_*, fail(), assert_floats_equal, assert_null, assert_non_null) unwinds
\* to the harness: the item is FAILED and the process is not terminated.
C5_AssertionRecovers ==
    last.res = "assert" =>
        /\ hstate = "IDLE"
        /\ verdict[current] = "FAILED"
        /\ global_running_test = 0

\* C6: failures are localized.  An item that consumed what it registered, freed
\* what it allocated and returned normally is PASSED, whatever earlier items did.
C6_Localized ==
    (last.op = "return" /\ WellBehaved) => verdict[current] = "PASSED"

\* C7: the end-of-item leftover check.  When the callback of a TEST item returns
\* normally while some return-value queue or some expectation queue still holds
\* an entry, the item is reported UnconsumedExpectation and is FAILED; when all
\* queues are empty the check does not fail it (only a leaked block then can).
C7_LeftoverCheck ==
    [][(IsReturn /\ function_type = "TEST") =>
           IF HasLeftoverValues(St)
           THEN /\ last'.res = "leftover"
                /\ verdict'[current] = "FAILED"
           ELSE /\ last'.res # "leftover"
                /\ verdict'[current] = "FAILED" <=> LeakedBlocks(St) # {}
      ]_vars

\* A TEST item registered a return value, did not read it and returned.
C7_Witness ==
    /\ last.op = "return" /\ last.res = "leftover"
    /\ function_type = "TEST" /\ verdict[current] = "FAILED"
    /\ \E f \in Functions : own.ret[f] = 1

\* C8: the checks on a key consume its expectation events in registration order.
\* An expect_value with count k appends k uses behind the uses already queued; a
\* check whose actual equals the first queued use passes and removes exactly
\* that use, so that the next check meets the next one; other keys are untouched.
C8_ExpectationOrder ==
    [][\A k \in Keys :
         LET q == function_parameter_map[k]
             q2 == function_parameter_map'[k]
         IN Finite(q) =>
              /\ (IsStmt("expect_value") /\ <<last'.fn, last'.par>> = k
                  /\ last'.cnt # INFINITE)
                     => Expand(q2) = Expand(q) \o Copies(last'.val, last'.cnt)
              /\ (IsStmt("check_expected") /\ <<last'.fn, last'.par>> = k
                  /\ q # <<>> /\ last'.val = Head(Expand(q)))
                     => /\ last'.res = "ok"
                        /\ Expand(q2) = Tail(Expand(q))
                        /\ hstate' = "RUNNING"
              /\ (<<last'.fn, last'.par>> # k
                  \/ last'.op \notin {"expect_value", "check_expected"})
                     => q2 = q
      ]_vars

\* A check passed against the first use of an event registered with count 2; its
\* second use and the event registered after it are still queued, in order.
C8_Witness ==
    /\ last.op = "check_expected" /\ last.res = "ok" /\ last.val = 5
    /\ function_parameter_map[<<last.fn, last.par>>] =
           <<[value |-> 5, count |-> 1], [value |-> 6, count |-> 1]>>

\* C9: a check whose actual does not satisfy the head event fails the item and
\* mutates nothing: the queue of the key still has the event with the same
\* count, and every other expectation queue and return-value queue is unchanged.
C9_FailedCheckKeepsRegistry ==
    [][(/\ IsStmt("check_expected")
        /\ function_parameter_map[<<last'.fn, last'.par>>] # <<>>
        /\ ~check_value(Head(function_parameter_map[<<last'.fn, last'.par>>]),
                        last'.val))
           => /\ last'.res = "mismatch"
              /\ verdict'[current] = "FAILED"
              /\ function_parameter_map' = function_parameter_map
              /\ function_result_map' = function_result_map
      ]_vars

\* A check failed on a mismatch while its own event and a return value of
\* another function were queued.
C9_Witness ==
    /\ last.op = "check_expected" /\ last.res = "mismatch"
    /\ function_parameter_map[<<last.fn, last.par>>] # <<>>
    /\ \E f \in Functions : function_result_map[f] # <<>>

\* The results of a statement that leaves the callback through exit_test.
AbortResults == {"assert", "missing", "mismatch", "invalid_free"}

\* C10: the abort path.  A statement is only ever executed by a running item
\* that has no verdict yet, so nothing of a callback runs after its failing
\* statement; and when a statement fails through the abort boundary the item is
\* FAILED and neither the leftover check nor the leak check is run for it.
C10_AbortSkipsChecks ==
    [][steps' = steps + 1 =>
           /\ hstate = "RUNNING"
           /\ verdict[current] = "NONE"
           /\ (last'.res \in AbortResults /\ hstate' # "EXITED")
                  => /\ hstate' = "IDLE"
                     /\ global_running_test' = 0
                     /\ verdict'[current] = "FAILED"
                     /\ checks' = {}
                     /\ function_result_map' = function_result_map
                     /\ allocated_blocks' = allocated_blocks
      ]_vars

\* An item failed assert_int_equal while an entry was queued and a block was
\* allocated: neither post-item check was run.
C10_Witness ==
    /\ last.op = "assert_int_equal" /\ last.res = "assert" /\ hstate = "IDLE"
    /\ verdict[current] = "FAILED" /\ checks = {}
    /\ HasLeftoverValues(St) /\ LeakedBlocks(St) # {}

C12_TripleNoLeak ==
    (/\ triple.phase = "teardown"
     /\ current = triple.first + 2
     /\ last.op = "return")
        => /\ \A i \in triple.first..current : verdict[i] = "PASSED"
           /\ last.res = "ok" /\ last.leaks = {}
           /\ allocated_blocks = triple.base

\* A triple ran to the end of its TEARDOWN, with TEST having used the block.
C12_Witness ==
    /\ triple.phase = "teardown" /\ current = triple.first + 2
    /\ last.op = "return" /\ steps = 3
    /\ \A i \in triple.first..current : verdict[i] = "PASSED"
    /\ allocated_blocks = triple.base /\ current_state = NULL

\* C13: a SETUP item that returns normally while return values it registered
\* are still queued (and no expectation is) is not failed by the leftover check,
\* whereas a TEST or TEARDOWN item in that situation is failed by it.
C13_SetupLeftoverTolerated ==
    (/\ last.op = "return"
     /\ \E f \in Functions : function_result_map[f] # <<>> /\ own.reg[f] > 0
     /\ \A k \in Keys : function_parameter_map[k] = <<>>)
        => IF function_type = "SETUP"
           THEN last.res # "leftover"
           ELSE last.res = "leftover" /\ verdict[current] = "FAILED"

C15_SharedSlot ==
    \A a, b \in 1..Len(main_run.calls) :
        LET ca == main_run.calls[a]
            cb == main_run.calls[b]
        IN (/\ cb.index = ca.index + 1
            /\ \/ ca.role = "SETUP" /\ cb.role = "TEST"
               \/ ca.role = "TEST" /\ cb.role = "TEARDOWN")
               => cb.seen = ca.left

\* C16: the suite result is the aggregate failure count.  When _run_tests
\* returns, its result is the number of items marked FAILED, of whatever role,
\* and it is 0 exactly when every item is PASSED.
C16_AggregateCount ==
    hstate = "SUITE_DONE" =>
        /\ total_failed =
               Cardinality({i \in 1..number_of_tests : verdict[i] = "FAILED"})
        /\ total_failed = 0 <=> \A i \in 1..number_of_tests : verdict[i] = "PASSED"

\* A suite whose last item, a TEARDOWN, is its only failed item returned 1.
C16_Witness ==
    /\ hstate = "SUITE_DONE" /\ total_failed = 1
    /\ function_type = "TEARDOWN" /\ verdict[number_of_tests] = "FAILED"
    /\ verdict[1] = "PASSED"

\* C17: freeing an address that has no allocation record (double free, foreign
\* pointer) is a reported failure that is not fatal.  The records are unchanged,
\* the process has not exited, the item is FAILED, and the next step of the run
\* starts the next item.
C17_InvalidFree ==
    [][/\ (IsStmt("test_free") /\ last'.val # NULL
           /\ last'.val \notin allocated_blocks)
              => /\ last'.res = "invalid_free"
                 /\ allocated_blocks' = allocated_blocks
                 /\ hstate' = "IDLE"
                 /\ exit_status' = exit_status
                 /\ verdict' = [verdict EXCEPT ![current] = "FAILED"]
       /\ (last.res = "invalid_free" /\ current < number_of_tests)
              => /\ hstate' = "RUNNING"
                 /\ current' = current + 1
      ]_vars

\* An item freed an address without a record while the block it had allocated
\* was live; it was failed with the record kept and another item still to run.
C17_Witness ==
    /\ last.op = "test_free" /\ last.res = "invalid_free"
    /\ last.val \notin allocated_blocks
    /\ own.blocks # {} /\ own.blocks = allocated_blocks
    /\ hstate = "IDLE" /\ verdict[current] = "FAILED"
    /\ current < number_of_tests

\* C18: test_free accepts NULL.  test_free(NULL) in a running item does not fail
\* the item and leaves the allocation records as they were.
C18_FreeNullAccepted ==
    [][(IsStmt("test_free") /\ last'.val = NULL)
           => /\ last'.res = "ok"
              /\ hstate' = "RUNNING"
              /\ verdict'[current] = "NONE"
              /\ allocated_blocks' = allocated_blocks
      ]_vars

\* C20: an entry registered with count -1 can be read any number of times, and
\* it is not an unconsumed leftover.  A TEST item that registered only unlimited
\* return values, read at least one of them, found every queue otherwise empty
\* and returned normally is PASSED.
C20_UnlimitedNotLeftover ==
    (/\ last.op = "return" /\ function_type = "TEST"
     /\ own.unlimited
     /\ \A f \in Functions : own.reg[f] = 0
     /\ \E f \in Functions : own.ret[f] < 0
     /\ \A f \in Functions : \A i \in 1..Len(function_result_map[f]) :
            function_result_map[f][i].count = INFINITE
     /\ \A k \in Keys : function_parameter_map[k] = <<>>)
        => /\ last.res # "leftover"
           /\ verdict[current] = "PASSED"


\* The two executions have given the same verdicts and counted the same failures.
TwiceAgree ==
    /\ hstate = second.hstate
    /\ verdict = second.verdict
    /\ rc = second.rc
    /\ total_failed = second.total_failed

\* No block the current item holds lies at an address that was live at the
\* item's checkpoint (the allocator reused no address freed during the item).
NoReuse(s) == s.own.blocks \cap s.check_point = {}

C21_RangeInclusive ==
    LET lo == ValueOf(scalar.minimum)
        hi == ValueOf(scalar.maximum)
        actual == ValueOf(scalar.actual)
    IN /\ (scalar.op \in {"expect_in_range", "assert_in_range"} /\ lo <= hi)
            => (scalar.passed <=> (lo <= actual /\ actual <= hi))
       /\ (scalar.op \in {"expect_not_in_range", "assert_not_in_range"} /\ lo <= hi)
            => (scalar.passed <=> (actual < lo \/ actual > hi))

\* C22: when the expected value and the actual argument hold the same integer in
\* native types of different width or signedness, the ExactValue check passes
\* and the ExcludedValue check fails.
C22_WideningNoSpuriousMismatch ==
    (/\ scalar.op \in {"expect_value", "expect_not_value"}
     /\ ValueOf(scalar.value) = ValueOf(scalar.actual))
        => (scalar.passed <=> scalar.op = "expect_value")

\* The same negative integer in a narrow signed type and in a wider one, and the
\* same integer in a signed and an unsigned type: both ExactValue checks passed.
C22_Witness ==
    /\ scalar.op = "expect_value"
    /\ ValueOf(scalar.value) = ValueOf(scalar.actual)
    /\ scalar.value.bits # scalar.actual.bits
    /\ \/ ValueOf(scalar.value) < 0
       \/ scalar.value.signed # scalar.actual.signed
    /\ scalar.passed

\* C23: when function_call triggers mock_assert with a false result inside
\* expect_assert_failure, control comes back into the macro, the item goes on
\* after it and is not failed by it; when function_call returns without an
\* assertion, the item fails; either way global_expecting_assert is 0 once the
\* macro is left.
C23_ExpectAssertFailure ==
    [][/\ (/\ expect_assert.pc = "call"
           /\ last'.op = "mock_assert" /\ last'.val = 0)
          => /\ hstate' = "RUNNING"
             /\ expect_assert'.pc = "after"
             /\ verdict' = verdict
             /\ expect_assert'.global_expecting_assert = 0
       /\ (expect_assert.pc = "call" /\ last'.res = "no_assert")
          => /\ verdict'[current] = "FAILED"
             /\ hstate' = "IDLE"
             /\ expect_assert'.global_expecting_assert = 0]_vars

\* C24: ini_parse_stream returns 0 exactly when no line produced an error, and
\* the number of the first line that did otherwise; an error line once recorded
\* is not changed by a later error.
C24_FirstErrorLine ==
    [][/\ (ini.error # 0 => ini'.error = ini.error)
       /\ (ini'.pc = "done" => ini'.ret = ini'.first_bad)]_vars

\* Two lines produced an error, and the number of the first was returned.
C24_Witness ==
    /\ ini.pc = "done"
    /\ ini.ret # 0
    /\ ini.ret < ini.lineno
    /\ ini.last.bad

\* C25: with INI_STOP_ON_FIRST_ERROR = 0 every well-formed name=value line
\* that comes after an erroneous line is still delivered to the handler.
C25_ContinuesAfterError ==
    [][(/\ ini.error # 0
        /\ ini'.lineno = ini.lineno + 1
        /\ ini'.last.wellformed)
          => /\ ini'.last.invoked
             /\ ini'.calls = ini.calls + 1
             /\ ini'.last.name = ini'.last.wf_name]_vars

\* A well-formed line was delivered after an error line.
C25_Witness ==
    /\ ini.error # 0
    /\ ini.error < ini.lineno
    /\ ini.last.wellformed
    /\ ini.last.invoked
    /\ ini.last.name = <<"k">>

\* C26: once the handler has returned zero for a line, it is not invoked for any
\* later line, and the parse function returns the number of that line.
C26_HandlerZeroStops ==
    [][ini.zero_at # 0 =>
          /\ ini'.calls = ini.calls
          /\ ini'.pc = "done" => ini'.ret = ini.zero_at]_vars

\* C27: the harness state machine.  An item is started only from IDLE and is
\* the next one; an item that is RUNNING leaves that state to IDLE with exactly
\* one verdict, PASSED or FAILED, where it had none (the process ending on a
\* FatalMisuse apart); a verdict once recorded never changes; SUITE_DONE is
\* entered only from IDLE after the last item got its verdict, and is terminal.
C27_HarnessStateMachine ==
    [][/\ (hstate # "RUNNING" /\ hstate' = "RUNNING")
          => hstate = "IDLE" /\ current' = current + 1
       /\ (hstate = "RUNNING" /\ hstate' = "RUNNING") => current' = current
       /\ (hstate = "RUNNING" /\ hstate' # "RUNNING")
          => \/ /\ hstate' = "IDLE"
                /\ verdict[current] = "NONE"
                /\ verdict'[current] \in {"PASSED", "FAILED"}
             \/ hstate' = "EXITED" /\ last'.res = "fatal_misuse"
       /\ \A i \in 1..number_of_tests :
             verdict[i] # "NONE" => verdict'[i] = verdict[i]
       /\ (hstate # "SUITE_DONE" /\ hstate' = "SUITE_DONE")
          => /\ hstate = "IDLE"
             /\ \A i \in 1..number_of_tests : verdict[i] # "NONE"
       /\ hstate = "SUITE_DONE" => hstate' = "SUITE_DONE"]_vars

HarnessFields ==
    <<hstate, current, function_type, global_running_test, verdict,
      function_result_map, function_parameter_map, allocated_blocks,
      check_point, exit_status, number_of_tests, rc, total_failed, current_state>>

\* C31: the boundary of an item is entered at most once: an item becomes FAILED
\* only while it is the running item with global_running_test = 1 and no
\* verdict yet, the step that ends an item clears global_running_test on the
\* normal and on the failure path, and global_running_test is 0 whenever no
\* item is running, so a failure between two items never changes a verdict.
C31_BoundaryOnce ==
    /\ [](hstate \in {"IDLE", "SUITE_DONE"} => global_running_test = 0)
    /\ [](hstate = "RUNNING" => global_running_test = 1)
    /\ [][/\ \A i \in 1..number_of_tests :
               (verdict[i] # "FAILED" /\ verdict'[i] = "FAILED")
                  => /\ hstate = "RUNNING" /\ global_running_test = 1
                     /\ i = current /\ verdict[i] = "NONE"
                     /\ global_running_test' = 0
          /\ (hstate = "RUNNING" /\ hstate' = "IDLE") => global_running_test' = 0
          /\ hstate # "RUNNING" => verdict' = verdict]_vars

\* exit_test(0) was called after the first item had passed: the item is
\* still PASSED and the harness is where it was.
C31_Witness ==
    /\ hstate = "IDLE"
    /\ current = 1
    /\ last.op = "exit_test"
    /\ last.val = 0
    /\ verdict[1] = "PASSED"
    /\ global_running_test = 0

\* C34: exit_test called with global_running_test = 0 does not jump: with
\* quit_application # 0 the process ends with status -1 and no verdict
\* changes, with quit_application = 0 nothing the program holds changes.
C34_ExitTestOutside ==
    [][(global_running_test = 0 /\ last'.op = "exit_test" /\ steps' = steps + 1)
          => IF last'.val # 0
             THEN /\ hstate' = "EXITED"
                  /\ exit_status' = -1
                  /\ verdict' = verdict
                  /\ global_running_test' = 0
             ELSE HarnessFields' = HarnessFields]_vars

\* exit_test(1) was called after the first item had failed: the process has
\* ended with status -1 and the second item was never started.
C34_Witness ==
    /\ hstate = "EXITED"
    /\ exit_status = -1
    /\ last.op = "exit_test"
    /\ last.val = 1
    /\ current = 1
    /\ verdict = <<"FAILED", "NONE">>

\* C32: an entry with count INFINITE that is the head of a function's queue
\* stays its head: the queue is never empty again, what was queued behind the
\* entry stays behind it, and every later mock() of that function returns the
\* entry's value and does not end the process.
C32_UnlimitedStaysHead ==
    [][\A f \in Functions :
          LET q == function_result_map[f] IN
          (q # <<>> /\ Head(q).count = INFINITE)
             => /\ Len(function_result_map'[f]) >= Len(q)
                /\ SubSeq(function_result_map'[f], 1, Len(q)) = q
                /\ (last'.op = "mock" /\ last'.fn = f /\ steps' = steps + 1)
                      => /\ last'.ret = Head(q).value
                         /\ last'.res = "ok"
                         /\ hstate' = "RUNNING"]_vars

\* The second item read F's unlimited entry, which the first item had queued
\* with another value behind it: it got the entry's value, and both are still
\* queued.
C32_Witness ==
    /\ current = 2
    /\ ~own.unlimited
    /\ last.op = "mock"
    /\ last.fn = "F"
    /\ last.ret = 5
    /\ Len(function_result_map["F"]) = 2
    /\ function_result_map["F"][1] = [value |-> 5, count |-> INFINITE]
    /\ function_result_map["F"][2].value = 6

\* C33: the step that gives an item its verdict prints exactly one notice for
\* it, whatever the role of the item: the success notice when the item passed,
\* the failure notice when it failed.
C33_OneNoticePerItem ==
    [][\A i \in 1..number_of_tests :
          (verdict[i] = "NONE" /\ verdict'[i] # "NONE")
             => notice'[i] = IF verdict'[i] = "PASSED"
                             THEN <<"Test completed successfully.">>
                             ELSE <<"Test failed.">>]_vars

\* C35: global_expecting_assert is 0 when an item starts, also after an item
\* whose wrapped call left it through a failure of the framework, and no
\* mock_assert jumps to the global_expect_assert_env of an item that is over.
C35_FlagClearAtItemStart ==
    /\ (hstate = "RUNNING" /\ last.op = "start")
          => expect_assert.global_expecting_assert = 0
    /\ last.res # "stale_jump"

C37_Continuation ==
    [][ini'.lineno = ini.lineno + 1
          => /\ ini'.last.kind = "continuation"
                   => /\ ini'.last.invoked
                      /\ ini'.last.name = ini.pair_name
                      /\ ini'.last.section = ini.pair_section
             /\ ini'.last.kind = "header" => ini'.prev_name = <<>>
             /\ (ini.last.kind = "header" /\ ini'.last.invoked)
                   => ini'.last.kind = "pair"]_vars

\* The bytes a call of the reader has to copy: those left, up to and with the
\* first '\n' among the first num - 1 of them, or the first num - 1 of them.
ExpectedChunk(c, num) ==
    LET rest == SubSeq(c.string, c.ptr + 1, c.ptr + c.num_left)
        most == IF Len(rest) < num - 1 THEN Len(rest) ELSE num - 1
        nl == {i \in 1..most : rest[i] = "\n"}
        n == IF nl = {} THEN most ELSE CHOOSE i \in nl : \A j \in nl : i <= j
    IN SubSeq(rest, 1, n)

\* C38: ini_reader_string returns NULL exactly when no byte is left or
\* num < 2, and leaves the context alone then; otherwise it copies the bytes
\* up to and with the first '\n', or num - 1 bytes, whichever comes first, and
\* moves the context past exactly these, at least one.  The chunks returned,
\* joined, are the bytes moved past, all length bytes once a reader with
\* num >= 2 has returned NULL, and ini_parse_string_length, once called,
\* returns.
C38_ReaderString ==
    /\ [][ctx'.calls = ctx.calls + 1
             => /\ ctx'.null <=> (ctx.num_left = 0 \/ ctx'.num < 2)
                /\ ctx'.null => ctx'.ptr = ctx.ptr /\ ctx'.num_left = ctx.num_left
                /\ ~ctx'.null
                      => /\ ctx'.chunk = ExpectedChunk(ctx, ctx'.num)
                         /\ Len(ctx'.chunk) >= 1
                         /\ ctx'.ptr = ctx.ptr + Len(ctx'.chunk)
                         /\ ctx'.num_left = ctx.num_left - Len(ctx'.chunk)]_vars
    /\ [](ctx.out = SubSeq(ctx.string, 1, ctx.ptr))
    /\ []((ctx.pc = "done" /\ ctx.max_line >= 2)
             => ctx.out = SubSeq(ctx.string, 1, ctx.length))
    /\ (ctx.pc # "idle") ~> (ctx.pc = "done")

\* A string of one line longer than the buffer was read in chunks, the last
\* of which ended at the '\n', and the reader has then returned NULL.
C38_Witness ==
    /\ ctx.pc = "done"
    /\ ctx.string = <<"k", "k", "\n">>
    /\ ctx.length = 3
    /\ ctx.max_line = 2
    /\ ctx.calls >= 3
    /\ ctx.out = ctx.string

\* The number of the physical line that begins after the first s bytes.
PhysicalLineNo(c, s) == 1 + Cardinality({i \in 1..s : c.string[i] = "\n"})

\* The bytes up to the end of the physical line that begins after the first s
\* bytes: up to its '\n', or all length bytes when it has none.
PhysicalLineEnd(c, s) ==
    LET nl == {i \in (s + 1)..c.length : c.string[i] = "\n"} IN
    IF nl = {} THEN c.length ELSE CHOOSE i \in nl : \A j \in nl : i <= j

\* C39: the loop body runs once per physical line, with lineno the number of
\* that line, and the reader is then past the whole line.  When the line with
\* its '\n' does not fit the buffer, the buffer holds its first max_line - 1
\* bytes, the rest is discarded, error becomes its number unless an error was
\* recorded before, and the handler is still called when the bytes in the
\* buffer have a separator.
C39_OverlongLine ==
    [][ini'.lineno = ini.lineno + 1
          => LET s == ctx'.start
                 e == PhysicalLineEnd(ctx', s)
             IN /\ s = 0 \/ ctx'.string[s] = "\n"
                /\ ini'.lineno = PhysicalLineNo(ctx', s)
                /\ ctx'.ptr = e
                /\ e - s > ctx'.max_line - 1
                      => /\ ctx'.line = SubSeq(ctx'.string, s + 1, s + ctx'.max_line - 1)
                         /\ ini'.error = IF ini.error = 0 THEN ini'.lineno ELSE ini.error
                         /\ ini'.last.bad
                         /\ ini'.last.invoked
                               <=> \E i \in 1..Len(ctx'.line) : ctx'.line[i] = "="]_vars

\* With a buffer of 2 bytes the line "=" with its '\n' did not fit: the
\* handler was called for "=" and returned 1, error is 1, and the line after
\* it was read as line 2.
C39_Witness ==
    /\ ctx.string = <<"=", "\n", "k">>
    /\ ctx.length = 3
    /\ ctx.max_line = 2
    /\ ini.lineno = 2
    /\ ini.error = 1
    /\ ini.calls = 1
    /\ ini.zero_at = 0

\* The values joined by single '\n' separators.
RECURSIVE Joined(_)
Joined(vs) ==
    IF Len(vs) = 1 THEN vs[1] ELSE vs[1] \o <<"\n">> \o Joined(Tail(vs))

\* The values delivered for section and name, compared without case, in order
\* of arrival; a NULL value is the empty text.
RECURSIVE ValuesFor(_, _, _)
ValuesFor(delivered, section, name) ==
    IF delivered = <<>> THEN <<>>
    ELSE LET d == Head(delivered)
             same == /\ Len(d.section) = Len(section)
                     /\ Len(d.name) = Len(name)
                     /\ \A i \in 1..Len(section) : tolower(d.section[i]) = tolower(section[i])
                     /\ \A i \in 1..Len(name) : tolower(d.name[i]) = tolower(name[i])
         IN (IF same THEN <<d.value.str>> ELSE <<>>)
               \o ValuesFor(Tail(delivered), section, name)

\* C40: Get returns the values delivered for its key, in order of arrival and
\* joined by single '\n' separators, and its default for a key that was never
\* delivered.
C40_GetJoinsValues ==
    reader.got.asked
       => LET vs == ValuesFor(reader.delivered, reader.got.section, reader.got.name) IN
          reader.got.ret = IF vs = <<>> THEN reader.got.default_value ELSE Joined(vs)

====
